---- MODULE Spec2Model ----
(***************************************************************************)
(* Graph construction for 1D vascular networks (graph1d/generate_graphs.py) *)
(*                                                                         *)
(* Arrays are sequences; the values stored in edges1/edges2, in the        *)
(* inlet/outlet lists and in the deletion lists are the source's 0-based   *)
(* point indices, so point i of an array a is a[i + 1].                    *)
(*                                                                         *)
(* Points lie on one line: a point is its integer coordinate and the       *)
(* Euclidean norm np.linalg.norm(p - q) is exactly |p - q|.  With integer  *)
(* coordinates the source's tolerances (1e-13, 1e-12) separate exactly the *)
(* value 0 from the values >= 1.                                           *)
(***************************************************************************)
EXTENDS Integers, Sequences, FiniteSets, TLC

VARIABLES
    pc,                  \* position of the driver / of the function being run
    points,              \* point coordinates (nodes)
    edges1, edges2,      \* directed edge list, edges1[i] -> edges2[i]
    indices,             \* [inlet |-> <<...>>, outlets |-> <<...>>]
    perc_points_to_keep, \* keep fraction, <<numerator, denominator>>
    remove_caps,         \* cap removal count
    npoints,             \* resample_points: number of input points
    ipoints_to_delete,   \* resample_points: deleted point indices, in order
    ipoints_to_replace,  \* resample_points: their replacements
    sampled_indices,     \* kept original point indices returned by remove_points
    index,               \* dijkstra_algorithm: the source point
    tovisit,             \* dijkstra_algorithm: points not yet extracted
    dists,               \* dijkstra_algorithm: tentative distances
    prevs,               \* dijkstra_algorithm: predecessors
    bif_id,              \* per-point bifurcation id
    rel_position,        \* generate_graph: per-edge relative position
    distance,            \* generate_graph: per-edge distance
    etypes,              \* generate_graph: per-edge type tag
    bedges,              \* result of generate_boundary_edges
    jedges,              \* result of create_junction_edges
    types,               \* generate_types: per-point type, one-hot rows
    inlet_mask,          \* generate_types: per-point inlet mask
    outlet_mask,         \* generate_types: per-point outlet mask
    continuity_mask,     \* create_continuity_mask: per-point mask
    max_num_partitions,  \* create_partitions: the number of roots asked for
    inlets,              \* create_partitions: the chosen roots
    partitions,          \* create_partitions: the returned partitions
    files,               \* __main__: the input files, in the order listed
    ifile,               \* __main__: number of files taken from the list
    ipart,               \* __main__: number of partitions of the file handled
    saved,               \* __main__: <<file, partition>> of each graph saved
    attempts,            \* __main__: the arguments of each resample_points call
    field,               \* add_fields: the (timestep, values) items of the mapping, in its order
    subsample_time,      \* add_fields: the stride along the time axis
    field_t,             \* add_fields: the stacked tensor, one slice per timestep
    ndata                \* add_fields: [field, dt] attached to the graph

resVars == <<perc_points_to_keep, remove_caps, npoints, ipoints_to_delete,
             ipoints_to_replace, sampled_indices>>
dijVars == <<index, tovisit, dists, prevs>>
graphVars == <<bif_id, rel_position, distance, etypes, bedges, jedges>>
nodeVars == <<types, inlet_mask, outlet_mask, continuity_mask>>
partVars == <<max_num_partitions, inlets, partitions>>
drvVars == <<files, ifile, ipart, saved, attempts>>
fieldVars == <<field, subsample_time, field_t, ndata>>
vars == <<pc, points, edges1, edges2, indices, resVars, dijVars, graphVars,
          nodeVars, partVars, drvVars, fieldVars>>

----------------------------------------------------------------------------
(* Bounds of the model *)

\* largest number of points of an input network
MaxPoints == 4
\* largest length of an input edge
MaxLen == 2
\* largest denominator of a keep fraction
MaxDen == 3
\* largest cap removal count
MaxCaps == 1
\* largest number of nodes of a graph handed to dijkstra_algorithm on its own
MaxNodes == 3
\* largest number of directed edges of such a graph
MaxEdges == 3
\* largest number of points of a chain handed to junction-edge synthesis
MaxChain == 7

----------------------------------------------------------------------------
(* numpy / Python helpers *)

\* np.infty
Inf == -1

\* the result of 0 / 0
NaN == 1000000

Abs(x) == IF x < 0 THEN -x ELSE x

\* np.array(s): the elements of s, held as values
Array(s) == s \o << >>

Contains(s, x) == \E i \in 1..Len(s) : s[i] = x

Range(s) == {s[i] : i \in 1..Len(s)}

\* a < b on floats that may be np.infty or nan (a comparison with nan is False)
Less(a, b) == a # NaN /\ b # NaN /\ a # Inf /\ (b = Inf \/ a < b)

\* a + b on floats that may be np.infty or nan
Plus(a, b) == IF a = NaN \/ b = NaN THEN NaN ELSE IF a = Inf \/ b = Inf THEN Inf ELSE a + b

\* a coordinate that is np.infty in a malformed geometry file
InfCoord == 2000000

\* np.linalg.norm(a - b) of two coordinates: inf - inf is nan
Norm(a, b) ==
    IF a = InfCoord /\ b = InfCoord THEN NaN
    ELSE IF a = InfCoord \/ b = InfCoord THEN Inf
    ELSE Abs(a - b)

\* a valid index into an axis of length n (negative indices count from the end)
InBounds(i, n) == -n <= i /\ i < n

Wrap(i, n) == IF i < 0 THEN i + n ELSE i

\* a[i] for a 0-based, possibly negative, in-bounds index
At(a, i) == a[Wrap(i, Len(a)) + 1]

\* np.delete(a, idxs): idxs may repeat; negative indices wrap
NpDelete(a, idxs) ==
    LET gone == {Wrap(idxs[k], Len(a)) + 1 : k \in 1..Len(idxs)}
        F[i \in 0..Len(a)] ==
            IF i = 0 THEN << >>
            ELSE IF i \in gone THEN F[i - 1] ELSE Append(F[i - 1], a[i])
    IN  F[Len(a)]

\* np.delete raises IndexError for an index outside [-n, n)
NpDeleteOk(n, idxs) == \A k \in 1..Len(idxs) : InBounds(idxs[k], n)

\* np.arange(n)
Arange(n) == Array([i \in 1..n |-> i - 1])

\* np.where(a == x)[0][0], 0-based; defined when x occurs in a
FirstIndex(a, x) == (CHOOSE i \in 1..Len(a) : a[i] = x /\ \A j \in 1..(i - 1) : a[j] # x) - 1

----------------------------------------------------------------------------
(* Boundary identification *)

find_outlets_wrong(e1, e2) == SelectSeq(e1, LAMBDA e : ~Contains(e2, e))

find_outlets(e1, e2) == SelectSeq(e2, LAMBDA e : ~Contains(e1, e))

----------------------------------------------------------------------------
(* Resampler *)

\* resample_points.modify_edges: <<edges1, edges2>> with every reference to
\* ipoint_to_delete rewritten to ipoint_to_replace
modify_edges(e1, e2, ipoint_to_delete, ipoint_to_replace) ==
    << Array([i \in 1..Len(e1) |-> IF e1[i] = ipoint_to_delete THEN ipoint_to_replace ELSE e1[i]]),
       Array([i \in 1..Len(e2) |-> IF e2[i] = ipoint_to_delete THEN ipoint_to_replace ELSE e2[i]]) >>

npoints_to_keep_wrong(n, perc) == n - ((n * (perc[2] - perc[1])) \div perc[2])

\* int(npoints * perc_points_to_keep), the fraction taken exactly
npoints_to_keep(n, perc) == (n * perc[1]) \div perc[2]

\* the deletions and rewrites of the cap removal loop, as the list of
\* <<point to delete, replacement>> in execution order
CapPairs(ind, caps) ==
    LET PerIp(ip) ==
            [k \in 1..Len(ind.inlet) |-> <<ind.inlet[k] + ip, ind.inlet[k] + caps>>]
            \o [k \in 1..Len(ind.outlets) |-> <<ind.outlets[k] - ip, ind.outlets[k] - caps>>]
        F[ip \in 0..caps] == IF ip = 0 THEN << >> ELSE F[ip - 1] \o PerIp(ip - 1)
    IN  F[caps]

\* the edge list after applying a list of <<delete, replace>> pairs in order
ApplyPairs(e1, e2, pairs) ==
    LET F[k \in 0..Len(pairs)] ==
            IF k = 0 THEN <<e1, e2>>
            ELSE LET e == F[k - 1]
                 IN  modify_edges(e[1], e[2], pairs[k][1], pairs[k][2])
    IN  F[Len(pairs)]

\* points[edges,:] raises IndexError for an index outside [-n, n)
EdgesIndexable(pts, e1, e2) ==
    \A i \in 1..Len(e1) : InBounds(e1[i], Len(pts)) /\ InBounds(e2[i], Len(pts))

\* np.linalg.norm(points[edges1,:] - points[edges2,:], axis = 1) with the
\* lengths below 1e-13 set to np.inf
EdgeDiff(pts, e1, e2) ==
    Array([i \in 1..Len(e1) |->
              LET d == Norm(At(pts, e1[i]), At(pts, e2[i]))
              IN  IF d = 0 THEN Inf ELSE d])

\* np.min(diff)
MinDiff(diff) ==
    IF \E i \in 1..Len(diff) : diff[i] = NaN THEN NaN
    ELSE IF \A i \in 1..Len(diff) : diff[i] = Inf THEN Inf
    ELSE CHOOSE m \in (Range(diff) \ {Inf}) : \A x \in (Range(diff) \ {Inf}) : m <= x

\* the collapse step can select an edge: diff is not empty (np.min of an empty
\* array raises) and some length is finite (np.abs(inf - inf) is nan, the
\* np.where is empty and [0][0] raises)
CanCollapse(pts, e1, e2) ==
    /\ EdgesIndexable(pts, e1, e2)
    /\ Len(e1) > 0
    /\ MinDiff(EdgeDiff(pts, e1, e2)) \notin {Inf, NaN}

MinEdge_wrong(pts, e1, e2) ==
    LET diff == EdgeDiff(pts, e1, e2)
    IN  CHOOSE i \in 1..Len(diff) :
            diff[i] = MinDiff(diff) /\ \A j \in (i + 1)..Len(diff) : diff[j] # MinDiff(diff)

\* mind: the first edge of minimum length
MinEdge(pts, e1, e2) ==
    LET diff == EdgeDiff(pts, e1, e2)
    IN  FirstIndex(diff, MinDiff(diff)) + 1

PointToDelete_wrong(e1, e2, mind, new_outlets) == e2[mind]

\* the point removed by collapsing edge mind
PointToDelete(e1, e2, mind, new_outlets) ==
    IF ~Contains(new_outlets, e2[mind]) THEN e2[mind] ELSE e1[mind]

\* the point that replaces it
PointToReplace(e1, e2, mind, new_outlets) ==
    IF ~Contains(new_outlets, e2[mind]) THEN e1[mind] ELSE e2[mind]

DropSelfLoops_wrong(e1, e2) == <<e1, e2>>

\* remove_points: the edges whose endpoints differ
DropSelfLoops(e1, e2) ==
    LET keep == {i \in 1..Len(e1) : e1[i] # e2[i]}
        F[i \in 0..Len(e1)] ==
            IF i = 0 THEN << << >>, << >> >>
            ELSE LET e == F[i - 1]
                 IN  IF i \in keep THEN <<Append(e[1], e1[i]), Append(e[2], e2[i])>> ELSE e
    IN  F[Len(e1)]

\* remove_points: [ok, sampled_indices, edges1, edges2]; ok is FALSE when an
\* np.delete index is out of bounds or an edge endpoint is not a kept point
remove_points(idxs_to_delete, idxs_to_replace, e1, e2, n) ==
    LET pairs == [k \in 1..Len(idxs_to_delete) |-> <<idxs_to_delete[k], idxs_to_replace[k]>>]
        rewritten == ApplyPairs(e1, e2, pairs)
        kept == DropSelfLoops(rewritten[1], rewritten[2])
        sampled == NpDelete(Arange(n), idxs_to_delete)
    IN  IF ~NpDeleteOk(n, idxs_to_delete)
           \/ \E i \in 1..Len(kept[1]) :
                 ~Contains(sampled, kept[1][i]) \/ ~Contains(sampled, kept[2][i])
        THEN [ok |-> FALSE, sampled_indices |-> << >>, edges1 |-> kept[1], edges2 |-> kept[2]]
        ELSE [ok |-> TRUE,
              sampled_indices |-> sampled,
              edges1 |-> Array([i \in 1..Len(kept[1]) |-> FirstIndex(sampled, kept[1][i])]),
              edges2 |-> Array([i \in 1..Len(kept[2]) |-> FirstIndex(sampled, kept[2][i])])]

----------------------------------------------------------------------------
(* Input networks *)

\* out-trees rooted at point 0 over n points, the points numbered so that a
\* point's parent has a smaller index; par[i] is the parent of point i
Parents(n) == {par \in [1..(n - 1) -> 0..(n - 2)] : \A i \in 1..(n - 1) : par[i] < i}

\* the coordinate of point i, given the length len[i] of the edge into point i
RECURSIVE PosOf(_, _, _)
PosOf(par, len, i) == IF i = 0 THEN 0 ELSE PosOf(par, len, par[i]) + len[i]

TreePoints(n, par, len) == [k \in 1..n |-> PosOf(par, len, k - 1)]

TreeEdges1(n, par) == [k \in 1..(n - 1) |-> par[k]]

TreeEdges2(n) == [k \in 1..(n - 1) |-> k]

RECURSIVE Gcd(_, _)
Gcd(a, b) == IF b = 0 THEN a ELSE Gcd(b, a % b)

\* keep fractions in (0, 1], in lowest terms
KeepFractions ==
    {f \in (1..MaxDen) \X (1..MaxDen) : f[1] <= f[2] /\ Gcd(f[1], f[2]) = 1}

\* generate_boundary_edges not yet called
NoBoundaryEdges ==
    [ok |-> TRUE, bedges1 |-> << >>, bedges2 |-> << >>, rel_positions |-> << >>,
     dists |-> << >>, types |-> << >>]

\* create_junction_edges not yet called
NoJunctionEdges ==
    [ok |-> TRUE, juncts_inlets |-> << >>, jedges1 |-> << >>, jedges2 |-> << >>,
     jrel_position |-> << >>, jdistance |-> << >>, types |-> << >>,
     masks |-> [inlets |-> << >>, all |-> << >>]]

----------------------------------------------------------------------------
(* The driver's boundary identification and first resampling attempt        *)

\* the values of the variables a specification does not use
NodeDefaults ==
    types = << >> /\ inlet_mask = << >> /\ outlet_mask = << >> /\ continuity_mask = << >>

PartitionDefaults == max_num_partitions = 0 /\ inlets = << >> /\ partitions = << >>

DriverDefaults ==
    files = << >> /\ ifile = 0 /\ ipart = 0 /\ saved = << >> /\ attempts = << >>

NoData == [field |-> << >>, dt |-> 0]

FieldDefaults == field = << >> /\ subsample_time = 1 /\ field_t = << >> /\ ndata = NoData

InitResample ==
    /\ pc = "load"
    /\ \E n \in 2..MaxPoints : \E par \in Parents(n) : \E len \in [1..(n - 1) -> 1..MaxLen] :
          /\ points = TreePoints(n, par, len)
          /\ edges1 = TreeEdges1(n, par)
          /\ edges2 = TreeEdges2(n)
          /\ npoints = n
    /\ indices = [inlet |-> << >>, outlets |-> << >>]
    /\ perc_points_to_keep \in KeepFractions
    /\ remove_caps \in 0..MaxCaps
    /\ ipoints_to_delete = << >>
    /\ ipoints_to_replace = << >>
    /\ sampled_indices = << >>
    /\ index = 0 /\ tovisit = << >> /\ dists = << >> /\ prevs = << >>
    /\ bif_id = << >> /\ rel_position = << >> /\ distance = << >> /\ etypes = << >>
    /\ bedges = NoBoundaryEdges /\ jedges = NoJunctionEdges
    /\ NodeDefaults /\ PartitionDefaults /\ DriverDefaults /\ FieldDefaults

\* inlet = [0]; outlets = find_outlets(edges1, edges2)
BoundaryIdentification ==
    /\ pc = "load"
    /\ indices' = [inlet |-> <<0>>, outlets |-> find_outlets(edges1, edges2)]
    /\ pc' = "resample"
    /\ UNCHANGED <<points, edges1, edges2, resVars, dijVars, graphVars>>
    /\ UNCHANGED <<nodeVars, partVars, drvVars, fieldVars>>

\* resample_points up to the decimation loop: the cap removal loop and the
\* update of indices['outlets']
CapRemoval ==
    /\ pc = "resample"
    /\ LET pairs == CapPairs(indices, remove_caps)
           e == ApplyPairs(edges1, edges2, pairs)
       IN  /\ edges1' = e[1]
           /\ edges2' = e[2]
           /\ ipoints_to_delete' = [k \in 1..Len(pairs) |-> pairs[k][1]]
           /\ ipoints_to_replace' = [k \in 1..Len(pairs) |-> pairs[k][2]]
    /\ indices' = [indices EXCEPT !.outlets =
                      [k \in 1..Len(indices.outlets) |-> indices.outlets[k] - remove_caps]]
    /\ pc' = "collapse"
    /\ UNCHANGED <<points, perc_points_to_keep, remove_caps, npoints, sampled_indices,
                   dijVars, graphVars>>
    /\ UNCHANGED <<nodeVars, partVars, drvVars, fieldVars>>

\* the number of iterations of the decimation loop still to run
CollapsesLeft ==
    (npoints - npoints_to_keep(npoints, perc_points_to_keep))
    - (Len(ipoints_to_delete) - remove_caps * (Len(indices.inlet) + Len(indices.outlets)))

\* one iteration of the decimation loop
Collapse ==
    /\ pc = "collapse"
    /\ CollapsesLeft > 0
    /\ CanCollapse(points, edges1, edges2)
    /\ LET mind == MinEdge(points, edges1, edges2)
           del == PointToDelete(edges1, edges2, mind, indices.outlets)
           rep == PointToReplace(edges1, edges2, mind, indices.outlets)
           e == modify_edges(edges1, edges2, del, rep)
       IN  /\ edges1' = e[1]
           /\ edges2' = e[2]
           /\ ipoints_to_delete' = Append(ipoints_to_delete, del)
           /\ ipoints_to_replace' = Append(ipoints_to_replace, rep)
    /\ UNCHANGED <<pc, points, indices, perc_points_to_keep, remove_caps, npoints,
                   sampled_indices, dijVars, graphVars>>
    /\ UNCHANGED <<nodeVars, partVars, drvVars, fieldVars>>

\* an iteration of the decimation loop that finds no edge to collapse raises
CollapseRaises ==
    /\ pc = "collapse"
    /\ CollapsesLeft > 0
    /\ ~CanCollapse(points, edges1, edges2)
    /\ pc' = "raised"
    /\ UNCHANGED <<points, edges1, edges2, indices, resVars, dijVars, graphVars>>
    /\ UNCHANGED <<nodeVars, partVars, drvVars, fieldVars>>

\* after the loop: remove_points, np.delete(points, ...) and the return
RemovePoints ==
    /\ pc = "collapse"
    /\ CollapsesLeft <= 0
    /\ LET r == remove_points(ipoints_to_delete, ipoints_to_replace, edges1, edges2, npoints)
       IN  IF r.ok
           THEN /\ sampled_indices' = r.sampled_indices
                /\ edges1' = r.edges1
                /\ edges2' = r.edges2
                /\ points' = NpDelete(points, ipoints_to_delete)
                /\ pc' = "returned"
           ELSE /\ pc' = "raised"
                /\ UNCHANGED <<points, edges1, edges2, sampled_indices>>
    /\ UNCHANGED <<indices, perc_points_to_keep, remove_caps, npoints, ipoints_to_delete,
                   ipoints_to_replace, dijVars, graphVars>>
    /\ UNCHANGED <<nodeVars, partVars, drvVars, fieldVars>>

NextResample ==
    \/ BoundaryIdentification
    \/ CapRemoval
    \/ Collapse
    \/ CollapseRaises
    \/ RemovePoints

SpecResample == InitResample /\ [][NextResample]_vars

----------------------------------------------------------------------------
(* Claims about boundary identification and the resampler *)

\* the points that appear as an edge destination and never as an edge source
LeafPoints == {p \in 0..(npoints - 1) : p \in Range(edges2) /\ p \notin Range(edges1)}

\* the number of positions of s that hold x
Occurrences(s, x) == Cardinality({i \in 1..Len(s) : s[i] = x})

\* C1: on an out-tree rooted at point 0, boundary identification returns exactly
\* one inlet, point 0, and a non-empty outlet list that holds every leaf point
\* exactly once and nothing else, so its length is the number of leaf points.
C1_OutletsAreTheLeaves ==
    pc = "resample" =>
        /\ indices.inlet = <<0>>
        /\ Len(indices.outlets) > 0
        /\ \A p \in LeafPoints : Occurrences(indices.outlets, p) = 1
        /\ Range(indices.outlets) \subseteq LeafPoints
        /\ Len(indices.outlets) = Cardinality(LeafPoints)

C1_Witness == pc = "resample" /\ Len(indices.outlets) >= 2 /\ Len(edges1) > Len(indices.outlets)

\* C2 (as amended): with no cap removal, whenever resample_points returns, the
\* number of points it returns is floor(input_count * keep_fraction), and it is
\* at least 1 (the call raises instead of returning no point).
C2_KeptCount ==
    (pc = "returned" /\ remove_caps = 0) =>
        /\ Len(points) = (npoints * perc_points_to_keep[1]) \div perc_points_to_keep[2]
        /\ Len(sampled_indices) = Len(points)
        /\ Len(points) >= 1

C2_Witness ==
    /\ pc = "returned" /\ remove_caps = 0
    /\ (npoints * perc_points_to_keep[1]) % perc_points_to_keep[2] # 0
    /\ Len(points) >= 2

\* C2 (as stated): with no cap removal, resample_points returns for every
\* out-tree and keep fraction in (0, 1], and the number of points it returns is
\* input_count - floor(input_count * (1 - keep_fraction)).
C2_Original ==
    remove_caps = 0 =>
        /\ pc # "raised"
        /\ pc = "returned" =>
              Len(points) = npoints - ((npoints * (perc_points_to_keep[2] - perc_points_to_keep[1]))
                                          \div perc_points_to_keep[2])

\* C3: whenever resample_points returns, edges1 and edges2 have equal length,
\* every endpoint is an index of a returned point, and no edge is a self-loop.
C3_EdgesWellFormed ==
    pc = "returned" =>
        /\ Len(edges1) = Len(edges2)
        /\ \A i \in 1..Len(edges1) :
              /\ edges1[i] \in 0..(Len(points) - 1)
              /\ edges2[i] \in 0..(Len(points) - 1)
              /\ edges1[i] # edges2[i]

\* two points were collapsed away, the self-loops this left were dropped, and
\* an edge between the two kept points is returned
C3_Witness ==
    /\ pc = "returned"
    /\ Len(edges1) >= 1
    /\ Len(ipoints_to_delete) >= 2
    /\ Len(points) = 2

\* C4: with no cap removal, no decimation step removes the inlet (point 0) or an
\* outlet, and the kept point indices that resample_points returns contain the
\* inlet and every outlet of the input.
C4_EndpointsPreserved ==
    (remove_caps = 0 /\ pc \in {"collapse", "returned", "raised"}) =>
        /\ 0 \notin Range(ipoints_to_delete)
        /\ Range(indices.outlets) \cap Range(ipoints_to_delete) = {}
        /\ pc = "returned" =>
              ({0} \cup Range(indices.outlets)) \subseteq Range(sampled_indices)

----------------------------------------------------------------------------
(* Shortest-path engine *)

\* np.ones((nnodes)) * np.infty with dists[index] = 0
InitDists(nnodes, src) == Array([i \in 1..nnodes |-> IF i = src + 1 THEN 0 ELSE Inf])

\* np.ones((nnodes)) * (-1)
InitPrevs(nnodes) == Array([i \in 1..nnodes |-> -1])

\* the scan for the unvisited point of minimum tentative distance: the 0-based
\* position in tovisit of the first point of least finite distance, -1 when no
\* unvisited point has a finite distance
MinIndex(tv, d) ==
    LET F[i \in 0..Len(tv)] ==
            IF i = 0 THEN <<-1, Inf>>
            ELSE LET best == F[i - 1]
                 IN  IF Less(d[tv[i] + 1], best[2]) THEN <<i - 1, d[tv[i] + 1]>> ELSE best
    IN  F[Len(tv)][1]

\* inb: the destinations of the edges that leave curindex, in edge order
Neighbors(e1, e2, curindex) ==
    LET F[i \in 0..Len(e1)] ==
            IF i = 0 THEN << >>
            ELSE IF e1[i] = curindex THEN Append(F[i - 1], e2[i]) ELSE F[i - 1]
    IN  F[Len(e1)]

Relax_wrong(nodes, tv, curindex, neib, dp) ==
    IF Contains(tv, neib)
    THEN <<[dp[1] EXCEPT ![neib + 1] = Plus(dp[1][curindex + 1], Norm(nodes[curindex + 1], nodes[neib + 1]))],
           [dp[2] EXCEPT ![neib + 1] = curindex]>>
    ELSE dp

\* the relaxation of one edge curindex -> neib; dp is <<dists, prevs>>
Relax(nodes, tv, curindex, neib, dp) ==
    LET alt == Plus(dp[1][curindex + 1], Norm(nodes[curindex + 1], nodes[neib + 1]))
    IN  IF Contains(tv, neib) /\ Less(alt, dp[1][neib + 1])
        THEN <<[dp[1] EXCEPT ![neib + 1] = alt], [dp[2] EXCEPT ![neib + 1] = curindex]>>
        ELSE dp

\* one iteration of the while loop: [tovisit, dists, prevs] after extracting
\* the next point and relaxing its out-edges
DijkstraVisit(nodes, e1, e2, st) ==
    LET minindex == MinIndex(st.tovisit, st.dists)
        curindex == At(st.tovisit, minindex)
        tv == NpDelete(st.tovisit, <<minindex>>)
        inb == Neighbors(e1, e2, curindex)
        F[k \in 0..Len(inb)] ==
            IF k = 0 THEN <<st.dists, st.prevs>>
            ELSE LET dp == F[k - 1]
                 IN  Relax(nodes, tv, curindex, inb[k], dp)
        relaxed == F[Len(inb)]
    IN  [tovisit |-> tv, dists |-> relaxed[1], prevs |-> relaxed[2]]

HasInfinite_wrong(d) == d[Len(d)] = Inf

\* np.max(dists) == np.infty
HasInfinite(d) == \E i \in 1..Len(d) : d[i] = Inf

\* the while loop run to its end: each iteration extracts one point, so it
\* runs once per point of tovisit
DijkstraLoop(nodes, e1, e2, st0) ==
    LET F[k \in 0..Len(st0.tovisit)] ==
            IF k = 0 THEN st0
            ELSE LET st == F[k - 1]
                 IN  DijkstraVisit(nodes, e1, e2, st)
    IN  F[Len(st0.tovisit)]

\* dijkstra_algorithm(nodes, edges1, edges2, index): [ok, dists, prevs]; ok is
\* FALSE when the call raises
dijkstra_algorithm(nodes, e1, e2, src) ==
    LET st == DijkstraLoop(nodes, e1, e2,
                           [tovisit |-> Arange(Len(nodes)),
                            dists |-> InitDists(Len(nodes), src),
                            prevs |-> InitPrevs(Len(nodes))])
    IN  [ok |-> ~HasInfinite(st.dists), dists |-> st.dists, prevs |-> st.prevs]

----------------------------------------------------------------------------
(* dijkstra_algorithm on an arbitrary directed graph, one loop iteration per *)
(* step                                                                      *)

\* the ordered pairs of distinct nodes, in lexicographic order
NodePairs(n) ==
    LET F[k \in 0..(n * n)] ==
            IF k = 0 THEN << >>
            ELSE LET u == (k - 1) \div n
                     v == (k - 1) % n
                 IN  IF u # v THEN Append(F[k - 1], <<u, v>>) ELSE F[k - 1]
    IN  F[n * n]

\* the members of a set of positive integers, in increasing order
RECURSIVE Sorted(_)
Sorted(S) ==
    IF S = {} THEN << >>
    ELSE LET m == CHOOSE x \in S : \A y \in S : x <= y
         IN  <<m>> \o Sorted(S \ {m})

InitDijkstra ==
    /\ pc = "dijkstra"
    /\ \E n \in 1..MaxNodes :
          \* the points are numbered along the line, the first at the origin
          /\ points \in {p \in [1..n -> 0..MaxLen] :
                            p[1] = 0 /\ \A i \in 1..(n - 1) : p[i] <= p[i + 1]}
          /\ \E S \in SUBSET (1..(n * (n - 1))) :
                /\ Cardinality(S) <= MaxEdges
                /\ edges1 = [k \in 1..Cardinality(S) |-> NodePairs(n)[Sorted(S)[k]][1]]
                /\ edges2 = [k \in 1..Cardinality(S) |-> NodePairs(n)[Sorted(S)[k]][2]]
          /\ index \in 0..(n - 1)
          /\ tovisit = Arange(n)
          /\ dists = InitDists(n, index)
          /\ prevs = InitPrevs(n)
    /\ indices = [inlet |-> << >>, outlets |-> << >>]
    /\ perc_points_to_keep = <<1, 1>> /\ remove_caps = 0 /\ npoints = 0
    /\ ipoints_to_delete = << >> /\ ipoints_to_replace = << >> /\ sampled_indices = << >>
    /\ bif_id = << >> /\ rel_position = << >> /\ distance = << >> /\ etypes = << >>
    /\ bedges = NoBoundaryEdges /\ jedges = NoJunctionEdges
    /\ NodeDefaults /\ PartitionDefaults /\ DriverDefaults /\ FieldDefaults

\* one iteration of the while loop
DijkstraStep ==
    /\ pc = "dijkstra"
    /\ Len(tovisit) # 0
    /\ LET st == DijkstraVisit(points, edges1, edges2,
                               [tovisit |-> tovisit, dists |-> dists, prevs |-> prevs])
       IN  /\ tovisit' = st.tovisit
           /\ dists' = st.dists
           /\ prevs' = st.prevs
    /\ UNCHANGED <<pc, points, edges1, edges2, indices, index, resVars, graphVars>>
    /\ UNCHANGED <<nodeVars, partVars, drvVars, fieldVars>>

\* the check after the loop finds an infinite distance and raises
DijkstraRaises ==
    /\ pc = "dijkstra"
    /\ Len(tovisit) = 0
    /\ HasInfinite(dists)
    /\ pc' = "raised"
    /\ UNCHANGED <<points, edges1, edges2, indices, resVars, dijVars, graphVars>>
    /\ UNCHANGED <<nodeVars, partVars, drvVars, fieldVars>>

\* the check after the loop passes: return dists, prevs
DijkstraReturns ==
    /\ pc = "dijkstra"
    /\ Len(tovisit) = 0
    /\ ~HasInfinite(dists)
    /\ pc' = "returned"
    /\ UNCHANGED <<points, edges1, edges2, indices, resVars, dijVars, graphVars>>
    /\ UNCHANGED <<nodeVars, partVars, drvVars, fieldVars>>

NextDijkstra ==
    \/ DijkstraStep
    \/ DijkstraRaises
    \/ DijkstraReturns

SpecDijkstra == InitDijkstra /\ [][NextDijkstra]_vars

----------------------------------------------------------------------------
(* Claims about the shortest-path engine *)

\* the directed walks from point s to point p that visit at most Len(points)
\* points (a longer walk repeats a point, and dropping the cycle does not
\* lengthen it), as sequences of points
WalksTo(s, p) ==
    LET n == Len(points)
        IsEdge(u, v) == \E i \in 1..Len(edges1) : edges1[i] = u /\ edges2[i] = v
    IN  {w \in UNION {[1..k -> 0..(n - 1)] : k \in 1..n} :
            /\ w[1] = s
            /\ w[Len(w)] = p
            /\ \A i \in 1..(Len(w) - 1) : IsEdge(w[i], w[i + 1])}

\* the sum of the Euclidean lengths of the edges of a walk
RECURSIVE WalkLength(_)
WalkLength(w) ==
    IF Len(w) <= 1 THEN 0
    ELSE Abs(points[w[1] + 1] - points[w[2] + 1]) + WalkLength(Tail(w))

\* C5: when dijkstra_algorithm returns, the distance of the source is 0, the
\* distance of every point is the least total Euclidean length of a directed
\* path from the source to it, and the returned arrays are those of any other
\* run on the same input.
C5_ShortestDistances ==
    pc = "returned" =>
        /\ dists[index + 1] = 0
        /\ \A p \in 0..(Len(points) - 1) :
              /\ \E w \in WalksTo(index, p) : WalkLength(w) = dists[p + 1]
              /\ \A w \in WalksTo(index, p) : WalkLength(w) >= dists[p + 1]
        /\ LET again == dijkstra_algorithm(points, edges1, edges2, index)
           IN  again.ok /\ again.dists = dists /\ again.prevs = prevs

\* a returned run in which some point is reached by a direct edge and by a
\* strictly longer path through a third point
C5_Witness ==
    /\ pc = "returned"
    /\ index # 0
    /\ \E p \in 0..(Len(points) - 1) :
          \E w1, w2 \in WalksTo(index, p) :
             Len(w1) = 2 /\ Len(w2) = 3 /\ WalkLength(w1) < WalkLength(w2)

\* the points reachable from the source along directed edges
Reachable ==
    LET n == Len(points)
        F[k \in 0..n] ==
            IF k = 0 THEN {index}
            ELSE F[k - 1] \cup {edges2[i] : i \in {j \in 1..Len(edges1) : edges1[j] \in F[k - 1]}}
    IN  F[n]

\* C6: dijkstra_algorithm raises exactly when, every point having been
\* extracted, some point is not reachable from the source along directed
\* edges; otherwise it returns and every distance is finite.
C6_RaisesIffUnreachable ==
    /\ pc = "raised" => (Len(tovisit) = 0 /\ Reachable # 0..(Len(points) - 1))
    /\ pc = "returned" =>
          /\ Len(tovisit) = 0
          /\ Reachable = 0..(Len(points) - 1)
          /\ \A i \in 1..Len(dists) : dists[i] # Inf
    /\ (pc = "dijkstra" /\ Len(tovisit) = 0) =>
          (HasInfinite(dists) <=> Reachable # 0..(Len(points) - 1))

C6_Witness ==
    /\ pc = "raised"
    /\ Cardinality(Reachable) >= 2
    /\ dists[Len(dists)] # Inf

----------------------------------------------------------------------------
(* Edge feature synthesis *)

\* diff / np.linalg.norm(diff) for a difference of coordinates
Normalized(diff) == IF diff > 0 THEN 1 ELSE IF diff < 0 THEN -1 ELSE NaN

\* generate_edge_features: [rel_position, rel_position_norm]
generate_edge_features(pts, e1, e2) ==
    [rel_position |-> Array([i \in 1..Len(e1) |->
                         IF Norm(pts[e2[i] + 1], pts[e1[i] + 1]) \in {Inf, NaN} THEN NaN
                         ELSE Normalized(pts[e2[i] + 1] - pts[e1[i] + 1])]),
     rel_position_norm |-> Array([i \in 1..Len(e1) |-> Norm(pts[e2[i] + 1], pts[e1[i] + 1])])]

\* np.min of a non-empty list of finite values
MinOf(s) == CHOOSE m \in Range(s) : \A x \in Range(s) : m <= x

ClosestBoundary_wrong(cur_dists) ==
    (CHOOSE i \in 1..Len(cur_dists) :
        cur_dists[i] = MinOf(cur_dists) /\ \A j \in (i + 1)..Len(cur_dists) : cur_dists[j] # MinOf(cur_dists)) - 1

\* minidx: np.where(cur_dists == min_dist)[0][0]
ClosestBoundary(cur_dists) == FirstIndex(cur_dists, MinOf(cur_dists))

IsSelfEdge_wrong(min_dist) == FALSE

\* min_dist < 1e-12
IsSelfEdge(min_dist) == min_dist = 0

\* the concatenation of a sequence of sequences
Flatten(ss) ==
    LET F[i \in 0..Len(ss)] == IF i = 0 THEN << >> ELSE F[i - 1] \o ss[i]
    IN  F[Len(ss)]

\* the lists built by the loop over the boundary points, before the filter:
\* position e holds the edge idxs[(e - 1) \div n + 1] -> (e - 1) % n; D holds the
\* result of dijkstra_algorithm for each boundary point
AllBoundaryEdges(pts, ind, idxs, D) ==
    [bedges1 |-> Array([e \in 1..(Len(idxs) * Len(pts)) |-> idxs[((e - 1) \div Len(pts)) + 1]]),
     bedges2 |-> Array([e \in 1..(Len(idxs) * Len(pts)) |-> (e - 1) % Len(pts)]),
     rel_positions |->
        Array([e \in 1..(Len(idxs) * Len(pts)) |->
                 LET rp == pts[((e - 1) % Len(pts)) + 1] - pts[idxs[((e - 1) \div Len(pts)) + 1] + 1]
                 IN  IF Abs(rp) > 0 THEN Normalized(rp) ELSE rp]),
     dists |-> Array([e \in 1..(Len(idxs) * Len(pts)) |->
                        D[((e - 1) \div Len(pts)) + 1].dists[((e - 1) % Len(pts)) + 1]]),
     types |-> Array([e \in 1..(Len(idxs) * Len(pts)) |->
                        IF Contains(ind.inlet, idxs[((e - 1) \div Len(pts)) + 1]) THEN 1 ELSE 2])]

\* dists[ipoint::npoints]
CurDists(n, K, alld, ipoint) == Array([k \in 1..K |-> alld[ipoint + (k - 1) * n + 1]])

\* the positions the filter deletes for point ipoint: the edge from its closest
\* boundary point when that edge is a self-edge, and the edges from all others
ToDelete(n, K, ipoint, min_dist, minidx) ==
    (IF IsSelfEdge(min_dist) THEN <<ipoint + minidx * n>> ELSE << >>)
    \o SelectSeq(Array([k \in 1..K |-> ipoint + (k - 1) * n]),
                 LAMBDA i : i # ipoint + minidx * n)

\* edges_to_delete
EdgesToDelete(n, K, alld) ==
    Flatten(Array([ip \in 1..n |->
                     ToDelete(n, K, ip - 1,
                              MinOf(CurDists(n, K, alld, ip - 1)),
                              ClosestBoundary(CurDists(n, K, alld, ip - 1)))]))

\* the five np.delete calls
DeleteEdges(all, edges_to_delete) ==
    [ok |-> TRUE,
     bedges1 |-> NpDelete(all.bedges1, edges_to_delete),
     bedges2 |-> NpDelete(all.bedges2, edges_to_delete),
     rel_positions |-> NpDelete(all.rel_positions, edges_to_delete),
     dists |-> NpDelete(all.dists, edges_to_delete),
     types |-> NpDelete(all.types, edges_to_delete)]

\* the filter that keeps, for every point, the edge from its closest boundary
\* point
KeepClosest(n, K, all) == DeleteEdges(all, EdgesToDelete(n, K, all.dists))

\* generate_boundary_edges once the shortest paths are known
BoundaryEdgesOf(pts, ind, idxs, D) ==
    IF \E k \in 1..Len(D) : ~D[k].ok
    THEN [NoBoundaryEdges EXCEPT !.ok = FALSE]
    ELSE KeepClosest(Len(pts), Len(idxs), AllBoundaryEdges(pts, ind, idxs, D))

\* generate_boundary_edges: [ok, bedges1, bedges2, rel_positions, dists, types];
\* ok is FALSE when a dijkstra_algorithm call raises
generate_boundary_edges(pts, ind, e1, e2) ==
    BoundaryEdgesOf(pts, ind, ind.inlet \o ind.outlets,
                    Array([k \in 1..Len(ind.inlet \o ind.outlets) |->
                             dijkstra_algorithm(pts, e1, e2, (ind.inlet \o ind.outlets)[k])]))

\* a dict is the list of its <<key, value>> items in insertion order
DictHas(d, key) == \E i \in 1..Len(d) : d[i][1] = key

\* dict[key]
DictGet(d, key) == d[CHOOSE i \in 1..Len(d) : d[i][1] = key][2]

\* dict[key] = value
DictSet(d, key, value) ==
    IF DictHas(d, key)
    THEN Array([i \in 1..Len(d) |-> IF d[i][1] = key THEN <<key, value>> ELSE d[i]])
    ELSE Append(d, <<key, value>>)

JunctionEntry_wrong(bif, ipoint) ==
    \/ At(bif, ipoint) = -1 /\ At(bif, ipoint + 1) # -1
    \/ At(bif, ipoint) # -1 /\ At(bif, ipoint + 1) = -1

\* the first condition of the scan: point ipoint precedes a junction region,
\* or is point 0 inside one
JunctionEntry(bif, ipoint) ==
    \/ At(bif, ipoint) = -1 /\ At(bif, ipoint + 1) # -1
    \/ ipoint = 0 /\ At(bif, ipoint) # -1

MarkExit_wrong(mask, ipoint) == mask

\* jun_mask[ipoint] = 1 at the point an exit edge leads to
MarkExit(mask, ipoint) == [mask EXCEPT ![ipoint + 1] = 1]

\* one iteration of the scan over bif_id in create_junction_edges; st.ok is
\* FALSE once a lookup in juncts_inlets has raised KeyError
JunctionScanStep(bif, ipoint, st) ==
    IF ~st.ok THEN st
    ELSE IF JunctionEntry(bif, ipoint)
    THEN IF ~DictHas(st.juncts_inlets, At(bif, ipoint + 1))
         THEN [st EXCEPT !.juncts_inlets = DictSet(@, At(bif, ipoint + 1), ipoint),
                         !.jun_inlet_mask[ipoint + 1] = 1,
                         !.jun_mask[ipoint + 1] = 1]
         ELSE st
    ELSE IF At(bif, ipoint) # -1 /\ At(bif, ipoint - 1) # -1
            /\ At(bif, ipoint - 1) # At(bif, ipoint)
    THEN IF DictHas(st.juncts_inlets, At(bif, ipoint - 1))
         THEN [st EXCEPT !.juncts_inlets =
                            DictSet(@, At(bif, ipoint), DictGet(st.juncts_inlets, At(bif, ipoint - 1)))]
         ELSE [st EXCEPT !.ok = FALSE]
    ELSE IF At(bif, ipoint) = -1 /\ At(bif, ipoint - 1) # -1
    THEN IF DictHas(st.juncts_inlets, At(bif, ipoint - 1))
         THEN [st EXCEPT !.jedges1 = Append(@, DictGet(st.juncts_inlets, At(bif, ipoint - 1))),
                         !.jedges2 = Append(@, ipoint),
                         !.jun_mask = MarkExit(@, ipoint)]
         ELSE [st EXCEPT !.ok = FALSE]
    ELSE st

\* the scan over ipoint in range(npoints - 1)
JunctionScan(bif) ==
    LET n == Len(bif)
        F[i \in 0..(n - 1)] ==
            IF i = 0
            THEN [ok |-> TRUE, juncts_inlets |-> << >>,
                  jun_inlet_mask |-> Array([k \in 1..n |-> 0]),
                  jun_mask |-> Array([k \in 1..n |-> 0]),
                  jedges1 |-> << >>, jedges2 |-> << >>]
            ELSE LET st == F[i - 1]
                 IN  JunctionScanStep(bif, i - 1, st)
    IN  F[n - 1]

Mirror_wrong(s, t) == s \o s

\* a list followed by the list of its mirrored entries
Mirror(s, t) == s \o t

\* dists: the result of dijkstra_algorithm for every recorded inlet, held at
\* position inlet + 1
JunctionDists(pts, e1, e2, juncts_inlets) ==
    Array([a \in 1..Len(pts) |->
             IF \E k \in 1..Len(juncts_inlets) : juncts_inlets[k][2] = a - 1
             THEN dijkstra_algorithm(pts, e1, e2, a - 1)
             ELSE [ok |-> TRUE, dists |-> << >>, prevs |-> << >>]])

\* jrel_position before mirroring
JunctionRel(pts, j1, j2) == Array([i \in 1..Len(j1) |-> pts[j2[i] + 1] - pts[j1[i] + 1]])

\* jdistance before mirroring
JunctionDistance(dst, j1, j2) == Array([i \in 1..Len(j1) |-> dst[j1[i] + 1].dists[j2[i] + 1]])

\* -jrel_position
Negated(rel) == Array([i \in 1..Len(rel) |-> -rel[i]])

\* the returned lists, made bidirectional
JunctionResult(sc, jrel, jdist) ==
    [ok |-> TRUE,
     juncts_inlets |-> sc.juncts_inlets,
     jedges1 |-> Mirror(sc.jedges1, sc.jedges2),
     jedges2 |-> Mirror(sc.jedges2, sc.jedges1),
     jrel_position |-> Mirror(jrel, Negated(jrel)),
     jdistance |-> Mirror(jdist, jdist),
     types |-> Array([i \in 1..(2 * Len(sc.jedges1)) |-> 3]),
     masks |-> [inlets |-> sc.jun_inlet_mask, all |-> sc.jun_mask]]

\* create_junction_edges after the scan, the shortest paths known; the lookup
\* dists[jedges1[iedg]] raises KeyError when the inlet an exit edge was given
\* is no longer the recorded inlet of any junction
JunctionEdgesOf(pts, sc, dst) ==
    IF \/ \E a \in 1..Len(dst) : ~dst[a].ok
       \/ \E i \in 1..Len(sc.jedges1) :
             ~\E k \in 1..Len(sc.juncts_inlets) : sc.juncts_inlets[k][2] = sc.jedges1[i]
    THEN [NoJunctionEdges EXCEPT !.ok = FALSE]
    ELSE JunctionResult(sc, JunctionRel(pts, sc.jedges1, sc.jedges2),
                        JunctionDistance(dst, sc.jedges1, sc.jedges2))

\* create_junction_edges after the scan
JunctionEdgesAfterScan(pts, e1, e2, sc) ==
    IF ~sc.ok
    THEN [NoJunctionEdges EXCEPT !.ok = FALSE]
    ELSE JunctionEdgesOf(pts, sc, JunctionDists(pts, e1, e2, sc.juncts_inlets))

\* create_junction_edges: ok is FALSE when the scan or a dijkstra_algorithm
\* call raises
create_junction_edges(pts, bif, e1, e2) == JunctionEdgesAfterScan(pts, e1, e2, JunctionScan(bif))

----------------------------------------------------------------------------
(* generate_graph up to the merged edge set *)

\* the variables an input network leaves at their defaults
GraphDefaults ==
    /\ indices = [inlet |-> << >>, outlets |-> << >>]
    /\ perc_points_to_keep = <<1, 1>> /\ remove_caps = 0
    /\ ipoints_to_delete = << >> /\ ipoints_to_replace = << >> /\ sampled_indices = << >>
    /\ index = 0 /\ tovisit = << >> /\ dists = << >> /\ prevs = << >>
    /\ rel_position = << >> /\ distance = << >> /\ etypes = << >>
    /\ bedges = NoBoundaryEdges /\ jedges = NoJunctionEdges
    /\ NodeDefaults /\ PartitionDefaults /\ DriverDefaults /\ FieldDefaults

\* an out-tree without junctions
InitGraph ==
    /\ pc = "generate_graph"
    /\ \E n \in 2..MaxPoints : \E par \in Parents(n) : \E len \in [1..(n - 1) -> 1..MaxLen] :
          /\ points = TreePoints(n, par, len)
          /\ edges1 = TreeEdges1(n, par)
          /\ edges2 = TreeEdges2(n)
          /\ npoints = n
          /\ bif_id = [k \in 1..n |-> -1]
    /\ GraphDefaults

\* the bifurcation ids of the model: ordinary points and two junctions
BifIds == {-1, 0, 1}

\* a chain of equally spaced points with any labelling of its points
InitChain ==
    /\ pc = "generate_graph"
    /\ \E n \in 2..MaxChain :
          /\ points = [k \in 1..n |-> k - 1]
          /\ edges1 = [k \in 1..(n - 1) |-> k - 1]
          /\ edges2 = [k \in 1..(n - 1) |-> k]
          /\ npoints = n
          /\ bif_id \in [1..n -> BifIds]
    /\ GraphDefaults

\* inlet = [0]; outlets = find_outlets(edges1, edges2)
GraphIndices ==
    /\ pc = "generate_graph"
    /\ indices' = [inlet |-> <<0>>, outlets |-> find_outlets(edges1, edges2)]
    /\ pc' = "bidirect"
    /\ UNCHANGED <<points, edges1, edges2, resVars, dijVars, graphVars>>
    /\ UNCHANGED <<nodeVars, partVars, drvVars, fieldVars>>

\* the edge list made bidirected, with its features and type tags
Bidirect ==
    /\ pc = "bidirect"
    /\ edges1' = edges1 \o edges2
    /\ edges2' = edges2 \o edges1
    /\ LET f == generate_edge_features(points, edges1 \o edges2, edges2 \o edges1)
       IN  /\ rel_position' = f.rel_position
           /\ distance' = f.rel_position_norm
    /\ etypes' = [i \in 1..(2 * Len(edges1)) |-> 0]
    /\ pc' = "boundary_edges"
    /\ UNCHANGED <<points, indices, resVars, dijVars, bif_id, bedges, jedges>>
    /\ UNCHANGED <<nodeVars, partVars, drvVars, fieldVars>>

\* if add_boundary_edges: the boundary edges are synthesized and appended
AddBoundaryEdges ==
    /\ pc = "boundary_edges"
    /\ \E b \in {generate_boundary_edges(points, indices, edges1, edges2)} :
           /\ bedges' = b
           /\ IF b.ok
              THEN /\ edges1' = edges1 \o b.bedges1
                   /\ edges2' = edges2 \o b.bedges2
                   /\ etypes' = etypes \o b.types
                   /\ distance' = distance \o b.dists
                   /\ rel_position' = rel_position \o b.rel_positions
                   /\ pc' = "junction_edges"
              ELSE /\ pc' = "raised"
                   /\ UNCHANGED <<edges1, edges2, etypes, distance, rel_position>>
    /\ UNCHANGED <<points, indices, resVars, dijVars, bif_id, jedges>>
    /\ UNCHANGED <<nodeVars, partVars, drvVars, fieldVars>>

\* if add_junction_edges and np.max(bif_id) > -1: the junction edges are
\* synthesized and appended; else the junction masks are zero.  With no exit
\* edge jrel_position is an array of one dimension, and np.concatenate with
\* the two-dimensional rel_position raises ValueError
AddJunctionEdges ==
    /\ pc = "junction_edges"
    /\ IF \E i \in 1..Len(bif_id) : bif_id[i] > -1
       THEN \E j \in {create_junction_edges(points, bif_id, edges1, edges2)} :
                /\ jedges' = j
                /\ IF j.ok /\ Len(j.jedges1) > 0
                   THEN /\ edges1' = edges1 \o j.jedges1
                        /\ edges2' = edges2 \o j.jedges2
                        /\ etypes' = etypes \o j.types
                        /\ distance' = distance \o j.jdistance
                        /\ rel_position' = rel_position \o j.jrel_position
                        /\ pc' = "edges_merged"
                   ELSE /\ pc' = "raised"
                        /\ UNCHANGED <<edges1, edges2, etypes, distance, rel_position>>
       ELSE /\ jedges' = [NoJunctionEdges EXCEPT
                             !.masks = [inlets |-> [k \in 1..Len(bif_id) |-> 0],
                                        all |-> [k \in 1..Len(bif_id) |-> 0]]]
            /\ pc' = "edges_merged"
            /\ UNCHANGED <<edges1, edges2, etypes, distance, rel_position>>
    /\ UNCHANGED <<points, indices, resVars, dijVars, bif_id, bedges>>
    /\ UNCHANGED <<nodeVars, partVars, drvVars, fieldVars>>

NodeType_wrong(bif, ind, i) == IF bif[i + 1] = -1 THEN 0 ELSE 1

\* cur_type of point i in generate_types: 0 branch, 1 junction, 2 inlet,
\* 3 outlet; the one-hot row has its 1 at this position
NodeType(bif, ind, i) ==
    IF Contains(ind.inlet, i) THEN 2
    ELSE IF Contains(ind.outlets, i) THEN 3
    ELSE IF bif[i + 1] = -1 THEN 0 ELSE 1

one_hot_wrong(tags, num_classes) ==
    Array([k \in 1..Len(tags) |->
              [c \in 1..num_classes |-> IF tags[k] = c - 1 \/ c = 1 THEN 1 ELSE 0]])

\* th.nn.functional.one_hot(th.tensor(tags), num_classes): one row per tag,
\* with a single 1 in the column of the tag
one_hot(tags, num_classes) ==
    Array([k \in 1..Len(tags) |->
              [c \in 1..num_classes |-> IF tags[k] = c - 1 THEN 1 ELSE 0]])

\* num_classes = 4, for the point types and for the edge types
NumClasses == 4

\* generate_types: [types, inlet_mask, outlet_mask]
generate_types(bif, ind) ==
    [types |-> one_hot(Array([k \in 1..Len(bif) |-> NodeType(bif, ind, k - 1)]), NumClasses),
     inlet_mask |-> Array([k \in 1..Len(bif) |-> NodeType(bif, ind, k - 1) = 2]),
     outlet_mask |-> Array([k \in 1..Len(bif) |-> NodeType(bif, ind, k - 1) = 3])]

\* create_continuity_mask; types[i, 0] is 1 when the type of point i is 0
create_continuity_mask(tps) ==
    <<0>>
    \o Array([k \in 1..(Len(tps) - 2) |->
                 IF tps[k][1] = 1 /\ tps[k + 1][1] = 1 /\ tps[k + 2][1] = 1 THEN 1 ELSE 0])
    \o <<0>>

\* the node attributes of the assembled graph, and the edge types as one-hot
\* rows
NodeAttributes ==
    /\ pc = "edges_merged"
    /\ \E t \in {generate_types(bif_id, indices)} :
          /\ types' = t.types
          /\ inlet_mask' = t.inlet_mask
          /\ outlet_mask' = t.outlet_mask
          /\ continuity_mask' = create_continuity_mask(t.types)
    /\ etypes' = one_hot(etypes, NumClasses)
    /\ pc' = "assembled"
    /\ UNCHANGED <<points, edges1, edges2, indices, resVars, dijVars, bif_id, rel_position,
                   distance, bedges, jedges, partVars, drvVars, fieldVars>>

NextGraph ==
    \/ GraphIndices
    \/ Bidirect
    \/ AddBoundaryEdges
    \/ AddJunctionEdges
    \/ NodeAttributes

SpecGraph == InitGraph /\ [][NextGraph]_vars

SpecChain == InitChain /\ [][NextGraph]_vars

----------------------------------------------------------------------------
(* create_partitions *)

\* the walk down the first outgoing edges from point j to the next point with
\* a junction id; -1 when a point without outgoing edge is reached first
RECURSIVE NextJunction(_, _, _, _)
NextJunction(bif, e1, e2, j) ==
    IF ~Contains(e1, j) THEN -1
    ELSE IF bif[e2[FirstIndex(e1, j) + 1] + 1] # -1 THEN e2[FirstIndex(e1, j) + 1]
    ELSE NextJunction(bif, e1, e2, e2[FirstIndex(e1, j) + 1])

\* the body of the loop over ipoint that selects a root after each junction:
\* the states it can leave, one for each value np.random.randint can return;
\* ok is FALSE when bif_id[ipoint + 1] or randint raises
SelectRootStep(bif, e1, e2, max, ipoint, st) ==
    IF ~st.ok \/ st.done THEN {st}
    ELSE IF Len(st.inlets) = max THEN {[st EXCEPT !.done = TRUE]}
    ELSE IF bif[ipoint + 1] = -1 THEN {st}
    ELSE IF ipoint + 1 >= Len(bif) THEN {[st EXCEPT !.ok = FALSE]}
    ELSE IF bif[ipoint + 2] # -1 THEN {st}
    ELSE IF NextJunction(bif, e1, e2, ipoint) = -1 THEN {st}
    ELSE IF ipoint + 1 >= NextJunction(bif, e1, e2, ipoint) THEN {[st EXCEPT !.ok = FALSE]}
    ELSE {[st EXCEPT !.inlets = Append(@, r)] :
             r \in (ipoint + 1)..(NextJunction(bif, e1, e2, ipoint) - 1)}

\* the loop over ipoint in range(npoints), from inlets = [0]
SelectRoots(bif, e1, e2, max) ==
    LET F[i \in 0..Len(bif)] ==
            IF i = 0 THEN {[ok |-> TRUE, done |-> FALSE, inlets |-> <<0>>]}
            ELSE LET before == F[i - 1]
                 IN  UNION {SelectRootStep(bif, e1, e2, max, i - 1, st) : st \in before}
    IN  F[Len(bif)]

\* available_in: the points with bifurcation id -1
AvailableIn(bif) == SelectSeq(Arange(Len(bif)), LAMBDA i : bif[i + 1] = -1)

\* n_new_inlets
NewInlets(max, chosen) == IF max - Len(chosen) < 2 THEN max - Len(chosen) ELSE 2

\* the lists random.sample(population, k) can return
Samples(population, k) ==
    {q \in [1..k -> 1..Len(population)] : \A a, b \in 1..k : a # b => q[a] # q[b]}

\* the visit of one outgoing edge of point j in create_partition
VisitEdge_wrong(st, j, next_point, roots) ==
    [st EXCEPT !.numbering = DictSet(@, next_point, st.count - 1),
               !.sampling_indices = Append(@, next_point),
               !.new_edges1 = Append(@, DictGet(st.numbering, j)),
               !.new_edges2 = Append(@, st.count - 1),
               !.points_to_visit = IF Contains(roots, next_point) THEN @
                                   ELSE Append(@, next_point)]

VisitEdge(st, j, next_point, roots) ==
    [st EXCEPT !.numbering = DictSet(@, next_point, st.count),
               !.count = @ + 1,
               !.sampling_indices = Append(@, next_point),
               !.new_edges1 = Append(@, DictGet(DictSet(st.numbering, next_point, st.count), j)),
               !.new_edges2 = Append(@, st.count),
               !.points_to_visit = IF Contains(roots, next_point) THEN @
                                   ELSE Append(@, next_point)]

\* the loop over the outgoing edges of point j, iedges their positions
RECURSIVE VisitEdges(_, _, _, _, _)
VisitEdges(st, j, e2, iedges, roots) ==
    IF iedges = << >> THEN st
    ELSE VisitEdges(VisitEdge(st, j, e2[Head(iedges)], roots), j, e2, Tail(iedges), roots)

\* one iteration of the while loop of create_partition
VisitPoint(st, e1, e2, roots) ==
    IF st.points_to_visit = << >> THEN st
    ELSE VisitEdges([st EXCEPT !.points_to_visit = Tail(@)], Head(st.points_to_visit), e2,
                    SelectSeq(Array([k \in 1..Len(e1) |-> k]),
                              LAMBDA k : e1[k] = Head(st.points_to_visit)),
                    roots)

\* create_partition: [new_edges1, new_edges2, sampling_indices, ...]; on a
\* tree the loop ends within one iteration per point
create_partition(e1, e2, starting_point, roots) ==
    LET F[k \in 0..(Len(e1) + 1)] ==
            IF k = 0
            THEN [sampling_indices |-> <<starting_point>>,
                  new_edges1 |-> << >>, new_edges2 |-> << >>,
                  points_to_visit |-> <<starting_point>>,
                  count |-> 1,
                  numbering |-> << <<starting_point, 0>> >>]
            ELSE LET before == F[k - 1] IN VisitPoint(before, e1, e2, roots)
    IN  F[Len(e1) + 1]

\* new_partition
NewPartition(pts, bif, part) ==
    [edges1 |-> part.new_edges1,
     edges2 |-> part.new_edges2,
     points |-> Array([k \in 1..Len(part.sampling_indices) |-> pts[part.sampling_indices[k] + 1]]),
     sampling_indices |-> part.sampling_indices,
     bif_id |-> Array([k \in 1..Len(part.sampling_indices) |-> bif[part.sampling_indices[k] + 1]])]

\* the loop over the roots: the partitions of more than one edge
MakePartitions(pts, bif, e1, e2, roots) ==
    SelectSeq(Array([k \in 1..Len(roots) |->
                       NewPartition(pts, bif, create_partition(e1, e2, roots[k], roots))]),
              LAMBDA part : Len(part.edges1) > 1)

\* the largest number of roots asked for
MaxRoots == 3

\* an out-tree with edges of length 1 and any labelling of its points
InitPartition ==
    /\ pc = "select_roots"
    /\ \E n \in 2..MaxPoints : \E par \in Parents(n) :
          /\ points = TreePoints(n, par, [k \in 1..(n - 1) |-> 1])
          /\ edges1 = TreeEdges1(n, par)
          /\ edges2 = TreeEdges2(n)
          /\ npoints = n
          /\ bif_id \in [1..n -> BifIds]
    /\ max_num_partitions \in 1..MaxRoots
    /\ inlets = << >> /\ partitions = << >>
    /\ indices = [inlet |-> << >>, outlets |-> << >>]
    /\ perc_points_to_keep = <<1, 1>> /\ remove_caps = 0
    /\ ipoints_to_delete = << >> /\ ipoints_to_replace = << >> /\ sampled_indices = << >>
    /\ index = 0 /\ tovisit = << >> /\ dists = << >> /\ prevs = << >>
    /\ rel_position = << >> /\ distance = << >> /\ etypes = << >>
    /\ bedges = NoBoundaryEdges /\ jedges = NoJunctionEdges
    /\ NodeDefaults /\ DriverDefaults /\ FieldDefaults

\* inlets = [0] and the loop that selects a root after each junction
SelectJunctionRoots ==
    /\ pc = "select_roots"
    /\ \E st \in SelectRoots(bif_id, edges1, edges2, max_num_partitions) :
          IF st.ok
          THEN inlets' = st.inlets /\ pc' = "sample_roots"
          ELSE inlets' = inlets /\ pc' = "raised"
    /\ UNCHANGED <<points, edges1, edges2, indices, resVars, dijVars, graphVars, nodeVars,
                   max_num_partitions, partitions, drvVars, fieldVars>>

\* if len(inlets) < max_num_partitions: roots sampled among the points with
\* bifurcation id -1; random.sample raises when they are too few
SampleRoots ==
    /\ pc = "sample_roots"
    /\ IF Len(inlets) < max_num_partitions
       THEN IF NewInlets(max_num_partitions, inlets) > Len(AvailableIn(bif_id))
            THEN inlets' = inlets /\ pc' = "raised"
            ELSE /\ \E q \in Samples(AvailableIn(bif_id), NewInlets(max_num_partitions, inlets)) :
                       inlets' = inlets \o [k \in 1..Len(q) |-> AvailableIn(bif_id)[q[k]]]
                 /\ pc' = "create_partition"
       ELSE inlets' = inlets /\ pc' = "create_partition"
    /\ UNCHANGED <<points, edges1, edges2, indices, resVars, dijVars, graphVars, nodeVars,
                   max_num_partitions, partitions, drvVars, fieldVars>>

\* the loop over the roots, and the return
CreatePartitions ==
    /\ pc = "create_partition"
    /\ partitions' = MakePartitions(points, bif_id, edges1, edges2, inlets)
    /\ pc' = "partitioned"
    /\ UNCHANGED <<points, edges1, edges2, indices, resVars, dijVars, graphVars, nodeVars,
                   max_num_partitions, inlets, drvVars, fieldVars>>

NextPartition ==
    \/ SelectJunctionRoots
    \/ SampleRoots
    \/ CreatePartitions

SpecPartition == InitPartition /\ [][NextPartition]_vars

----------------------------------------------------------------------------
(* resample_points as one call *)

\* the collapse of edge mind: the rewritten edges and the grown lists
CollapseWith(st, ipoint_to_delete, ipoint_to_replace) ==
    [ok |-> TRUE,
     edges1 |-> modify_edges(st.edges1, st.edges2, ipoint_to_delete, ipoint_to_replace)[1],
     edges2 |-> modify_edges(st.edges1, st.edges2, ipoint_to_delete, ipoint_to_replace)[2],
     ipoints_to_delete |-> Append(st.ipoints_to_delete, ipoint_to_delete),
     ipoints_to_replace |-> Append(st.ipoints_to_replace, ipoint_to_replace)]

CollapseEdge(st, mind, new_outlets) ==
    CollapseWith(st, PointToDelete(st.edges1, st.edges2, mind, new_outlets),
                 PointToReplace(st.edges1, st.edges2, mind, new_outlets))

\* one iteration of the decimation loop; ok is FALSE once it has raised
CollapseStep(pts, new_outlets, st) ==
    IF ~st.ok THEN st
    ELSE IF ~CanCollapse(pts, st.edges1, st.edges2) THEN [st EXCEPT !.ok = FALSE]
    ELSE CollapseEdge(st, MinEdge(pts, st.edges1, st.edges2), new_outlets)

\* the decimation loop, from the state the cap removal loop leaves
Decimate(pts, new_outlets, st0, iterations) ==
    LET F[k \in 0..iterations] ==
            IF k = 0 THEN st0
            ELSE LET before == F[k - 1] IN CollapseStep(pts, new_outlets, before)
    IN  F[iterations]

\* the state after the cap removal loop
AfterCaps(e1, e2, pairs) ==
    [ok |-> TRUE,
     edges1 |-> ApplyPairs(e1, e2, pairs)[1],
     edges2 |-> ApplyPairs(e1, e2, pairs)[2],
     ipoints_to_delete |-> Array([k \in 1..Len(pairs) |-> pairs[k][1]]),
     ipoints_to_replace |-> Array([k \in 1..Len(pairs) |-> pairs[k][2]])]

\* indices after indices['outlets'] = new_outlets
NewIndices(ind, caps) ==
    [ind EXCEPT !.outlets = Array([k \in 1..Len(ind.outlets) |-> ind.outlets[k] - caps])]

\* the return of resample_points, r the result of remove_points
ResampleReturn(pts, new_ind, st, r) ==
    IF ~r.ok
    THEN [ok |-> FALSE, sampled_indices |-> << >>, points |-> << >>,
          edges1 |-> << >>, edges2 |-> << >>, indices |-> new_ind]
    ELSE [ok |-> TRUE, sampled_indices |-> r.sampled_indices,
          points |-> NpDelete(pts, st.ipoints_to_delete),
          edges1 |-> r.edges1, edges2 |-> r.edges2, indices |-> new_ind]

\* resample_points after the decimation loop
ResampleFinish(pts, new_ind, st) ==
    IF ~st.ok
    THEN [ok |-> FALSE, sampled_indices |-> << >>, points |-> << >>,
          edges1 |-> << >>, edges2 |-> << >>, indices |-> new_ind]
    ELSE ResampleReturn(pts, new_ind, st,
                        remove_points(st.ipoints_to_delete, st.ipoints_to_replace,
                                      st.edges1, st.edges2, Len(pts)))

\* resample_points: [ok, sampled_indices, points, edges1, edges2, indices];
\* indices is the caller's record as the call leaves it, also when it raises
resample_points(pts, e1, e2, ind, perc, caps) ==
    ResampleFinish(pts, NewIndices(ind, caps),
                   Decimate(pts, NewIndices(ind, caps).outlets,
                            AfterCaps(e1, e2, CapPairs(ind, caps)),
                            IF Len(pts) - npoints_to_keep(Len(pts), perc) > 0
                            THEN Len(pts) - npoints_to_keep(Len(pts), perc) ELSE 0))

----------------------------------------------------------------------------
(* create_partitions and generate_graph as one call each *)

\* the outcomes of the root selection of create_partitions, one for each
\* value the random draws can return: [ok, inlets]
RootOutcomes(bif, e1, e2, max) ==
    UNION {IF ~st.ok THEN {[ok |-> FALSE, inlets |-> st.inlets]}
           ELSE IF Len(st.inlets) >= max THEN {[ok |-> TRUE, inlets |-> st.inlets]}
           ELSE IF NewInlets(max, st.inlets) > Len(AvailableIn(bif))
           THEN {[ok |-> FALSE, inlets |-> st.inlets]}
           ELSE {[ok |-> TRUE,
                  inlets |-> st.inlets \o [k \in 1..Len(q) |-> AvailableIn(bif)[q[k]]]] :
                    q \in Samples(AvailableIn(bif), NewInlets(max, st.inlets))} :
             st \in SelectRoots(bif, e1, e2, max)}

\* the outcomes of create_partitions: [ok, inlets, partitions]
create_partitions(pts, bif, e1, e2, max) ==
    {[ok |-> o.ok, inlets |-> o.inlets,
      partitions |-> IF o.ok THEN MakePartitions(pts, bif, e1, e2, o.inlets) ELSE << >>] :
        o \in RootOutcomes(bif, e1, e2, max)}

\* generate_graph after the boundary edges b: ok is FALSE when it raises, and
\* dijkstra tells that dijkstra_algorithm raised
GraphAfterBoundary(pts, bif, e1, e2, b) ==
    IF ~b.ok THEN [ok |-> FALSE, dijkstra |-> TRUE]
    ELSE IF \E i \in 1..Len(bif) : bif[i] > -1
    THEN [ok |-> create_junction_edges(pts, bif, e1 \o b.bedges1, e2 \o b.bedges2).ok
                 /\ Len(create_junction_edges(pts, bif, e1 \o b.bedges1, e2 \o b.bedges2).jedges1) > 0,
          dijkstra |-> FALSE]
    ELSE [ok |-> TRUE, dijkstra |-> FALSE]

\* generate_graph on the bidirected edges
GraphOfBidirected(pts, bif, ind, e1, e2) ==
    GraphAfterBoundary(pts, bif, e1, e2, generate_boundary_edges(pts, ind, e1, e2))

\* generate_graph: [ok, dijkstra]
generate_graph(pts, bif, e1, e2) ==
    GraphOfBidirected(pts, bif, [inlet |-> <<0>>, outlets |-> find_outlets(e1, e2)],
                      e1 \o e2, e2 \o e1)

----------------------------------------------------------------------------
(* The driver: __main__ *)

\* remove_caps = 3 in the call of resample_points
DriverCaps == 3

\* max_num_partitions = 2
DriverPartitions == 2

\* the largest number of input files
MaxFiles == 2

\* the number of calls of resample_points for one file the model follows
MaxAttempts == 6

\* the input files of the model.  vtp: the name contains '.vtp'; loads:
\* load_vtp returns; n: the network is a chain of n points one apart;
\* bif: BifurcationId, << >> when the file has no such array; steps: the
\* number of timesteps of the pressure and flow fields
PlainChain(n) == [vtp |-> TRUE, loads |-> TRUE, n |-> n, inf |-> -1, has_bif |-> TRUE,
                  bif |-> [k \in 1..n |-> -1], steps |-> 2]

FileKinds ==
    {[PlainChain(3) EXCEPT !.vtp = FALSE],
     [PlainChain(3) EXCEPT !.loads = FALSE],
     PlainChain(3),
     PlainChain(20),
     [PlainChain(20) EXCEPT !.bif = [k \in 1..20 |-> IF k = 12 THEN 0 ELSE -1]],
     [PlainChain(20) EXCEPT !.inf = 12],
     [PlainChain(20) EXCEPT !.steps = 1],
     [PlainChain(20) EXCEPT !.has_bif = FALSE, !.bif = << >>]}

\* resample_perc = 0.08
FirstPerc == <<2, 25>>

\* np.min([resample_perc * 2, 1])
DoublePerc(perc) == IF 2 * perc[1] >= perc[2] THEN <<1, 1>> ELSE <<2 * perc[1], perc[2]>>

InitDriver ==
    /\ pc = "next_file"
    /\ \E m \in 1..MaxFiles : files \in [1..m -> FileKinds]
    /\ ifile = 0 /\ ipart = 0 /\ saved = << >> /\ attempts = << >>
    /\ points = << >> /\ edges1 = << >> /\ edges2 = << >> /\ npoints = 0
    /\ bif_id = << >>
    /\ indices = [inlet |-> << >>, outlets |-> << >>]
    /\ perc_points_to_keep = FirstPerc /\ remove_caps = DriverCaps
    /\ ipoints_to_delete = << >> /\ ipoints_to_replace = << >> /\ sampled_indices = << >>
    /\ index = 0 /\ tovisit = << >> /\ dists = << >> /\ prevs = << >>
    /\ rel_position = << >> /\ distance = << >> /\ etypes = << >>
    /\ bedges = NoBoundaryEdges /\ jedges = NoJunctionEdges
    /\ NodeDefaults
    /\ max_num_partitions = DriverPartitions /\ inlets = << >> /\ partitions = << >>
    /\ FieldDefaults

\* the next name of the list: skipped when it is not a .vtp file; else the file
\* is loaded, which ends the run when load_vtp raises, and the boundary points
\* are identified
TakeFile ==
    /\ pc = "next_file"
    /\ ifile < Len(files)
    /\ ifile' = ifile + 1
    /\ \E f \in {files[ifile + 1]} :
          IF ~f.vtp
          THEN /\ pc' = "next_file"
               /\ UNCHANGED <<points, edges1, edges2, npoints, bif_id, indices,
                              perc_points_to_keep, attempts, ipart, partitions, inlets>>
          ELSE IF ~f.loads
          THEN /\ pc' = "crashed"
               /\ UNCHANGED <<points, edges1, edges2, npoints, bif_id, indices,
                              perc_points_to_keep, attempts, ipart, partitions, inlets>>
          ELSE /\ points' = [k \in 1..f.n |-> IF k - 1 = f.inf THEN InfCoord ELSE k - 1]
               /\ edges1' = [k \in 1..(f.n - 1) |-> k - 1]
               /\ edges2' = [k \in 1..(f.n - 1) |-> k]
               /\ npoints' = f.n
               /\ bif_id' = f.bif
               /\ indices' = [inlet |-> <<0>>,
                              outlets |-> find_outlets([k \in 1..(f.n - 1) |-> k - 1],
                                                       [k \in 1..(f.n - 1) |-> k])]
               /\ perc_points_to_keep' = FirstPerc
               /\ attempts' = << >>
               /\ ipart' = 0 /\ partitions' = << >> /\ inlets' = << >>
               /\ pc' = "resample"
    /\ UNCHANGED <<remove_caps, ipoints_to_delete, ipoints_to_replace, sampled_indices,
                   dijVars, rel_position, distance, etypes, bedges, jedges, nodeVars,
                   max_num_partitions, files, saved, fieldVars>>

\* the list is exhausted
RunEnds ==
    /\ pc = "next_file"
    /\ ifile = Len(files)
    /\ pc' = "done"
    /\ UNCHANGED <<points, edges1, edges2, indices, resVars, dijVars, graphVars,
                   nodeVars, partVars, drvVars, fieldVars>>

\* one turn of the while loop: resample_points on copies of points, edges1 and
\* edges2 and on indices itself; when it returns the point data is re-indexed,
\* when it raises the keep fraction is doubled
ResampleAttempt ==
    /\ pc = "resample"
    /\ Len(attempts) < MaxAttempts
    /\ attempts' = Append(attempts, [points |-> points, edges1 |-> edges1, edges2 |-> edges2,
                                     indices |-> indices, perc |-> perc_points_to_keep])
    /\ \E r \in {resample_points(points, edges1, edges2, indices, perc_points_to_keep,
                                 remove_caps)} :
          /\ indices' = r.indices
          /\ IF r.ok
             THEN /\ sampled_indices' = r.sampled_indices
                  /\ points' = r.points
                  /\ edges1' = r.edges1
                  /\ edges2' = r.edges2
                  /\ bif_id' = IF files[ifile].has_bif
                               THEN [k \in 1..Len(r.sampled_indices) |->
                                       bif_id[r.sampled_indices[k] + 1]]
                               ELSE bif_id
                  /\ pc' = "partition"
                  /\ UNCHANGED perc_points_to_keep
             ELSE /\ perc_points_to_keep' = DoublePerc(perc_points_to_keep)
                  /\ pc' = "resample"
                  /\ UNCHANGED <<sampled_indices, points, edges1, edges2, bif_id>>
    /\ UNCHANGED <<remove_caps, npoints, ipoints_to_delete, ipoints_to_replace, dijVars,
                   rel_position, distance, etypes, bedges, jedges, nodeVars, partVars,
                   files, ifile, ipart, saved, fieldVars>>

\* create_partitions; an exception it raises ends the run
Partition ==
    /\ pc = "partition"
    /\ IF ~files[ifile].has_bif
       THEN pc' = "crashed" /\ UNCHANGED <<inlets, partitions>>
       ELSE \E o \in create_partitions(points, bif_id, edges1, edges2, max_num_partitions) :
               /\ inlets' = o.inlets
               /\ partitions' = o.partitions
               /\ pc' = IF o.ok THEN "assemble" ELSE "crashed"
    /\ ipart' = 0
    /\ UNCHANGED <<points, edges1, edges2, indices, resVars, dijVars, graphVars, nodeVars,
                   max_num_partitions, files, ifile, saved, attempts, fieldVars>>

SavedAfter_wrong(sv, file, part, ok) == Append(sv, <<file, part>>)

\* the graph files written so far, after the try block of one partition
SavedAfter(sv, file, part, ok) == IF ok THEN Append(sv, <<file, part>>) ELSE sv

\* the try block of one partition returns: generate_graph, add_fields and
\* dgl.save_graphs raised nothing
AssemblyReturns(part, steps) ==
    generate_graph(part.points, part.bif_id, part.edges1, part.edges2).ok /\ steps >= 2

\* the body of the loop over the partitions: the graph is assembled and
\* saved, or the exception is caught and printed
AssemblePartition ==
    /\ pc = "assemble"
    /\ ipart < Len(partitions)
    /\ saved' = SavedAfter(saved, ifile, ipart,
                           AssemblyReturns(partitions[ipart + 1], files[ifile].steps))
    /\ ipart' = ipart + 1
    /\ UNCHANGED <<pc, points, edges1, edges2, indices, resVars, dijVars, graphVars,
                   nodeVars, partVars, files, ifile, attempts, fieldVars>>

\* the loop over the partitions is over
PartitionsDone ==
    /\ pc = "assemble"
    /\ ipart = Len(partitions)
    /\ pc' = "next_file"
    /\ UNCHANGED <<points, edges1, edges2, indices, resVars, dijVars, graphVars,
                   nodeVars, partVars, drvVars, fieldVars>>

NextDriver ==
    \/ TakeFile
    \/ RunEnds
    \/ ResampleAttempt
    \/ Partition
    \/ AssemblePartition
    \/ PartitionsDone

SpecDriver == InitDriver /\ [][NextDriver]_vars

----------------------------------------------------------------------------
(* Claims on the boundary edges, checked under SpecGraph *)

\* the number of edges of the bidirected network: those of type 0
SpatialCount == Len(SelectSeq(etypes, LAMBDA t : t = 0))

\* a length no shortest path of the network attains
Far == 1 + Len(points) * (CHOOSE d \in {Abs(points[i] - points[j]) : i, j \in 1..Len(points)} :
                             \A i, j \in 1..Len(points) : Abs(points[i] - points[j]) <= d)

LeastOf(S) == CHOOSE x \in S : \A y \in S : x <= y

\* the lengths of the shortest paths from src along the edges of the
\* bidirected network, by n rounds of relaxation of every edge
ShortestFrom(src) ==
    LET n == Len(points)
        F[k \in 0..n] ==
            IF k = 0
            THEN Array([v \in 1..n |-> IF v - 1 = src THEN 0 ELSE Far])
            ELSE LET prev == F[k - 1]
                 IN  Array([v \in 1..n |->
                              LeastOf({prev[v]} \cup
                                      {prev[edges1[i] + 1] + Abs(points[edges1[i] + 1] - points[v]) :
                                         i \in {j \in 1..SpatialCount : edges2[j] = v - 1}})])
    IN  F[n]

GraphDistance(b, p) == ShortestFrom(b)[p + 1]

BoundaryPoints == indices.inlet \o indices.outlets

\* the least shortest-path distance from a boundary point to p
MinBoundaryDistance(p) ==
    LeastOf({GraphDistance(BoundaryPoints[k], p) : k \in 1..Len(BoundaryPoints)})

BoundaryEdgesMade == pc \in {"junction_edges", "edges_merged"} /\ bedges.ok

\* C7: generate_boundary_edges retains, for every point p, exactly one edge
\* whose destination is p, and none when the least shortest-path distance
\* from a boundary point to p is zero
C7_OneEdgePerPoint ==
    BoundaryEdgesMade =>
        \A p \in 0..(Len(points) - 1) :
            Len(SelectSeq(bedges.bedges2, LAMBDA d : d = p))
              = IF MinBoundaryDistance(p) = 0 THEN 0 ELSE 1

\* boundary edges were made for a network with two outlets and an interior
\* point: some points keep one edge and the boundary points keep none
C7_Witness ==
    /\ BoundaryEdgesMade
    /\ Len(indices.outlets) >= 2
    /\ \E p \in 0..(Len(points) - 1) : ~Contains(BoundaryPoints, p) /\ Contains(bedges.bedges2, p)
    /\ \E p \in 0..(Len(points) - 1) : Contains(BoundaryPoints, p) /\ ~Contains(bedges.bedges2, p)

\* C8: the source b of every retained boundary edge (b, p) is the first
\* boundary point, in the order inlet then outlets, at the least
\* shortest-path distance from p; the edge's distance is that distance and
\* its type is 1 for the inlet and 2 for an outlet
C8_ClosestBoundaryFirst ==
    BoundaryEdgesMade =>
        \A i \in 1..Len(bedges.bedges1) :
            /\ Contains(BoundaryPoints, bedges.bedges1[i])
            /\ bedges.dists[i] = GraphDistance(bedges.bedges1[i], bedges.bedges2[i])
            /\ bedges.dists[i] = MinBoundaryDistance(bedges.bedges2[i])
            /\ \A k \in 1..Len(BoundaryPoints) :
                   GraphDistance(BoundaryPoints[k], bedges.bedges2[i]) = bedges.dists[i]
                     => FirstIndex(BoundaryPoints, bedges.bedges1[i]) <= k
            /\ bedges.types[i] = IF Contains(indices.inlet, bedges.bedges1[i]) THEN 1 ELSE 2

\* a retained edge from the inlet to a point that is as close to an outlet,
\* and a retained edge from an outlet
C8_Witness ==
    /\ BoundaryEdgesMade
    /\ \E i \in 1..Len(bedges.bedges1) :
          /\ bedges.types[i] = 1
          /\ \E k \in 1..Len(indices.outlets) :
                GraphDistance(indices.outlets[k], bedges.bedges2[i]) = bedges.dists[i]
    /\ \E i \in 1..Len(bedges.bedges1) : bedges.types[i] = 2

----------------------------------------------------------------------------
(* Claims on the junction edges, checked under SpecChain *)

JunctionEdgesMade == pc \in {"edges_merged", "raised"} /\ jedges.ok /\ bedges.ok

\* C9: every junction edge (a, b, rel, dist) that create_junction_edges
\* returns comes with the edge (b, a, -rel, dist), and every junction edge
\* has type 3
C9_MirroredPairs ==
    JunctionEdgesMade =>
        /\ Len(jedges.jedges2) = Len(jedges.jedges1)
        /\ Len(jedges.jrel_position) = Len(jedges.jedges1)
        /\ Len(jedges.jdistance) = Len(jedges.jedges1)
        /\ Len(jedges.types) = Len(jedges.jedges1)
        /\ \A i \in 1..Len(jedges.jedges1) :
              /\ jedges.types[i] = 3
              /\ \E k \in 1..Len(jedges.jedges1) :
                    /\ jedges.jedges1[k] = jedges.jedges2[i]
                    /\ jedges.jedges2[k] = jedges.jedges1[i]
                    /\ jedges.jrel_position[k] = -jedges.jrel_position[i]
                    /\ jedges.jdistance[k] = jedges.jdistance[i]

\* junction edges of two junctions were merged into the graph
C9_Witness ==
    /\ pc = "edges_merged"
    /\ Len(jedges.juncts_inlets) = 2
    /\ Len(jedges.jedges1) >= 4
    /\ \E i \in 1..Len(jedges.jedges1) : jedges.jdistance[i] >= 2

Labelled7 == Len(points) = 7 /\ bif_id = <<-1, -1, 0, 0, -1, -1, -1>>

\* C10: for the chain of 7 points with bifurcation ids -1,-1,0,0,-1,-1,-1,
\* create_junction_edges records one junction inlet, point 1, and returns one
\* exit edge, from point 1 to point 4, and its mirror: 2 junction edges
C10_OneExitEdge ==
    (Labelled7 /\ pc \in {"edges_merged", "raised"}) =>
        /\ pc = "edges_merged"
        /\ jedges.ok
        /\ jedges.juncts_inlets = << <<0, 1>> >>
        /\ jedges.jedges1 = <<1, 4>>
        /\ jedges.jedges2 = <<4, 1>>
        /\ jedges.masks.inlets = <<0, 1, 0, 0, 0, 0, 0>>

C10_Witness == Labelled7 /\ pc = "edges_merged" /\ Len(jedges.jedges1) = 2

\* C10 as stated: one junction inlet, two exit edges and their two mirrors
C10_Original ==
    (Labelled7 /\ pc \in {"edges_merged", "raised"}) =>
        /\ Len(jedges.juncts_inlets) = 1
        /\ Len(jedges.jedges1) = 4

----------------------------------------------------------------------------
(* Claims on the junction masks, checked under SpecChain *)

\* the points that juncts_inlets holds, when create_junction_edges returns, as
\* the inlet of some key
RecordedInlets == {jedges.juncts_inlets[k][2] : k \in 1..Len(jedges.juncts_inlets)}

\* C11: when create_junction_edges returns, the junction-inlet mask is 1 at
\* point p if and only if p is the inlet that juncts_inlets finally holds for
\* some junction id
C11_InletMaskIsRecordedInlets ==
    JunctionEdgesMade =>
        \A p \in 0..(Len(points) - 1) :
            jedges.masks.inlets[p + 1] = 1 <=> p \in RecordedInlets

\* the points an exit edge leads to: the destinations in the first half of
\* the returned edge list
ExitPoints == {jedges.jedges2[i] : i \in 1..(Len(jedges.jedges2) \div 2)}

\* C12: when create_junction_edges returns, the junction-all mask is 1 exactly
\* at the points where the junction-inlet mask is 1 and at the points an exit
\* edge leads to; the other points with a junction id are left at 0
C12_AllMaskIsInletsAndExits ==
    JunctionEdgesMade =>
        \A p \in 0..(Len(points) - 1) :
            jedges.masks.all[p + 1] = 1
              <=> (jedges.masks.inlets[p + 1] = 1 \/ p \in ExitPoints)

\* a junction was entered and left: its inlet and the point after it are
\* marked, a point inside it is not
C12_Witness ==
    /\ pc = "edges_merged"
    /\ \E p \in 0..(Len(points) - 1) : jedges.masks.all[p + 1] = 1 /\ p \in ExitPoints
    /\ \E p \in 0..(Len(points) - 1) : jedges.masks.all[p + 1] = 1 /\ jedges.masks.inlets[p + 1] = 1
    /\ \E p \in 0..(Len(points) - 1) : jedges.masks.all[p + 1] = 0 /\ bif_id[p + 1] # -1

\* C12 as stated: the mask is 1 at every point with a junction id and at every
\* recorded inlet
C12_Original ==
    JunctionEdgesMade =>
        \A p \in 0..(Len(points) - 1) :
            (bif_id[p + 1] # -1 \/ p \in RecordedInlets) => jedges.masks.all[p + 1] = 1

----------------------------------------------------------------------------
(* Claim on the continuity mask, checked under SpecChain *)

\* point p is a branch point: its bifurcation id is -1 and it is neither the
\* inlet nor an outlet
OrdinaryPoint(p) ==
    bif_id[p + 1] = -1 /\ ~Contains(indices.inlet, p) /\ ~Contains(indices.outlets, p)

\* C13: in the assembled graph the continuity mask has one entry per point,
\* is 0 at the first and the last point, and at every interior point i is 1
\* if and only if i - 1, i and i + 1 are all branch points: bifurcation id -1
\* and neither the inlet nor an outlet
C13_ContinuityOfBranchPoints ==
    pc = "assembled" =>
        /\ Len(continuity_mask) = Len(points)
        /\ continuity_mask[1] = 0
        /\ continuity_mask[Len(points)] = 0
        /\ \A i \in 1..(Len(points) - 2) :
              continuity_mask[i + 1] = 1
                <=> (OrdinaryPoint(i - 1) /\ OrdinaryPoint(i) /\ OrdinaryPoint(i + 1))

\* a graph was assembled in which the mask is 1 at a point, and 0 at the
\* point after the inlet although it and its neighbours have bifurcation
\* id -1
C13_Witness ==
    /\ pc = "assembled"
    /\ \E i \in 1..(Len(points) - 2) : continuity_mask[i + 1] = 1
    /\ Len(points) >= 3
    /\ bif_id[1] = -1 /\ bif_id[2] = -1 /\ bif_id[3] = -1
    /\ continuity_mask[2] = 0

\* C13 as stated: the mask of an interior point is 1 if and only if it and
\* its two neighbours have bifurcation id -1
C13_Original ==
    pc = "assembled" =>
        /\ continuity_mask[1] = 0
        /\ continuity_mask[Len(points)] = 0
        /\ \A i \in 1..(Len(points) - 2) :
              continuity_mask[i + 1] = 1
                <=> (bif_id[i] = -1 /\ bif_id[i + 1] = -1 /\ bif_id[i + 2] = -1)

----------------------------------------------------------------------------
(* Claims on the partitions, checked under SpecPartition *)

\* C14: no original point index is in the sampling_indices of two different
\* partitions that create_partitions returns
C14_PartitionsDisjoint ==
    pc = "partitioned" =>
        \A a, b \in 1..Len(partitions) :
            a # b => Range(partitions[a].sampling_indices)
                       \cap Range(partitions[b].sampling_indices) = {}

\* C15: in every returned partition the root has local index 0, the k-th point
\* visited after it has local index k, every edge leads from an index given
\* earlier to the next fresh one, is an edge of the input between the points
\* those indices stand for, and has both ends among the partition's points
C15_DenseLocalIndices ==
    pc = "partitioned" =>
        \A a \in 1..Len(partitions) :
            LET part == partitions[a]
            IN  /\ Contains(inlets, part.sampling_indices[1])
                /\ Len(part.sampling_indices) = Len(part.edges2) + 1
                /\ Len(part.points) = Len(part.sampling_indices)
                /\ Len(part.edges1) = Len(part.edges2)
                /\ \A i \in 1..Len(part.edges2) :
                      /\ part.edges2[i] = i
                      /\ part.edges1[i] \in 0..(i - 1)
                      /\ part.edges1[i] \in 0..(Len(part.points) - 1)
                      /\ part.edges2[i] \in 0..(Len(part.points) - 1)
                      /\ \E e \in 1..Len(edges1) :
                            /\ edges1[e] = part.sampling_indices[part.edges1[i] + 1]
                            /\ edges2[e] = part.sampling_indices[part.edges2[i] + 1]

\* a partition of three or more points is returned whose root is not point 0,
\* so that its local indices differ from the original ones
C15_Witness ==
    /\ pc = "partitioned"
    /\ \E a \in 1..Len(partitions) :
          /\ partitions[a].sampling_indices[1] # 0
          /\ Len(partitions[a].sampling_indices) >= 3
          /\ \E i \in 1..Len(partitions[a].edges1) :
                partitions[a].sampling_indices[partitions[a].edges2[i] + 1] # partitions[a].edges2[i]

\* ---------------------------------------------------------------------------
\* C16
\* ---------------------------------------------------------------------------

\* the Dijkstra pass of generate_graph raises on this partition: some distance
\* stays infinite
GraphDijkstraRaises(part) ==
    generate_graph(part.points, part.bif_id, part.edges1, part.edges2).dijkstra

\* C16: no partition is assembled or skipped after its Dijkstra pass left a
\* distance infinite while the keep fraction is still below 1.0: such an error
\* sends the driver back to resampling with the keep fraction doubled, so the
\* partitions the driver has gone through raise it only at keep fraction 1.0
C16_UnreachableIsResampled ==
    pc = "assemble" =>
        \A k \in 1..ipart :
            GraphDijkstraRaises(partitions[k]) => perc_points_to_keep = <<1, 1>>

\* ---------------------------------------------------------------------------
\* C17
\* ---------------------------------------------------------------------------

\* C17: every call of resample_points for one file receives the points, the
\* edge lists and the inlet/outlet record that the first call received
C17_RetryFromOriginalInput ==
    \A k \in 1..Len(attempts) :
        /\ attempts[k].points = attempts[1].points
        /\ attempts[k].edges1 = attempts[1].edges1
        /\ attempts[k].edges2 = attempts[1].edges2
        /\ attempts[k].indices = attempts[1].indices

\* ---------------------------------------------------------------------------
\* C18
\* ---------------------------------------------------------------------------

\* C18: a call of resample_points that fails at keep fraction 1.0 ends the
\* retry loop of the file: the loop is never about to call it again after
\* such a failure
C18_FailureAtOneEndsLoop ==
    ~(/\ pc = "resample"
      /\ Len(attempts) >= 1
      /\ attempts[Len(attempts)].perc = <<1, 1>>)

\* ---------------------------------------------------------------------------
\* C19
\* ---------------------------------------------------------------------------

\* C19: the loop body of one partition never ends the run: when assembling or
\* saving the graph raises, no file is written for that partition, when it
\* returns, exactly that partition's file is written; either way the loop
\* goes on with the next partition, and after the last partition the driver
\* turns to the next file
C19_FailedPartitionIsSkipped ==
    [][/\ (pc = "assemble" /\ ipart < Len(partitions)) =>
             /\ pc' = "assemble"
             /\ ipart' = ipart + 1
             /\ ifile' = ifile /\ files' = files /\ partitions' = partitions
             /\ saved' = IF AssemblyReturns(partitions[ipart + 1], files[ifile].steps)
                         THEN Append(saved, <<ifile, ipart>>)
                         ELSE saved
       /\ (pc = "assemble" /\ ipart = Len(partitions)) =>
             /\ pc' = "next_file"
             /\ ifile' = ifile /\ files' = files /\ saved' = saved]_vars

\* the first partition of a file raised and left no file, the second one was
\* assembled and saved after it
C19_Witness ==
    /\ pc = "assemble"
    /\ Len(partitions) = 2 /\ ipart = 2
    /\ ~AssemblyReturns(partitions[1], files[ifile].steps)
    /\ ~Contains(saved, <<ifile, 0>>)
    /\ Contains(saved, <<ifile, 1>>)

\* ---------------------------------------------------------------------------
\* C20
\* ---------------------------------------------------------------------------

\* C20: no failure in one input file ends the run while files of the list
\* are still to be processed
C20_FailureStaysInItsFile == ~(pc = "crashed" /\ ifile < Len(files))

\* ---------------------------------------------------------------------------
\* C21
\* ---------------------------------------------------------------------------

\* the number of active categories of a one-hot row
Active(row) == Len(SelectSeq(row, LAMBDA x : x = 1))

\* the type category the claim gives to point i
ClaimedType(i) ==
    IF Contains(indices.inlet, i) THEN 2
    ELSE IF Contains(indices.outlets, i) THEN 3
    ELSE IF bif_id[i + 1] >= 0 THEN 1
    ELSE 0

\* C21: in the assembled graph the type row of every point has exactly one
\* active category: inlet (2) for the inlet, else outlet (3) for an outlet,
\* else junction (1) for a non-negative bifurcation id, else branch (0); the
\* inlet mask is set exactly at the inlet-type points, the outlet mask exactly
\* at the outlet-type points, and the type row of every edge has exactly one
\* active category of the 4
C21_OneHotTypes ==
    pc = "assembled" =>
        /\ Len(types) = Len(points)
        /\ Len(inlet_mask) = Len(points)
        /\ Len(outlet_mask) = Len(points)
        /\ \A i \in 0..(Len(points) - 1) :
              /\ Len(types[i + 1]) = 4
              /\ Active(types[i + 1]) = 1
              /\ types[i + 1][ClaimedType(i) + 1] = 1
              /\ inlet_mask[i + 1] <=> types[i + 1][3] = 1
              /\ outlet_mask[i + 1] <=> types[i + 1][4] = 1
        /\ Len(etypes) = Len(edges1)
        /\ \A e \in 1..Len(etypes) : Len(etypes[e]) = 4 /\ Active(etypes[e]) = 1

\* a graph was assembled that has points of the four types and edges of the
\* four types
C21_Witness ==
    /\ pc = "assembled"
    /\ \A c \in 1..4 : \E i \in 1..Len(types) : types[i][c] = 1
    /\ \A c \in 1..4 : \E e \in 1..Len(etypes) : etypes[e][c] = 1

\* ---------------------------------------------------------------------------
\* add_fields
\* ---------------------------------------------------------------------------

\* the largest number of timesteps of a field mapping and the largest
\* timestep key, the largest field value and the largest stride
MaxSteps == 3
MaxKey == 3
MaxValue == 1
MaxStride == 2

\* the keys of the mapping, in its iteration order
Keys(fld) == Array([k \in 1..Len(fld) |-> fld[k][1]])

\* a list of distinct numbers after list.sort()
SortedList(s) ==
    CHOOSE t \in [1..Len(s) -> Range(s)] :
        /\ Range(t) = Range(s)
        /\ \A i \in 1..(Len(s) - 1) : t[i] <= t[i + 1]

\* field_t[:, :, ::subsample_time]
Strided(t, stride) ==
    Array([k \in 1..((Len(t) + stride - 1) \div stride) |-> t[(k - 1) * stride + 1]])

\* field_t after the loop over the mapping: slice count holds the values of
\* the count-th item the mapping yields
Stacked(fld) == Array([count \in 1..Len(fld) |-> fld[count][2]])

\* add_fields: [ok, field_t, ndata]; ok is FALSE when timesteps[1] does not
\* exist
add_fields(fld, stride) ==
    IF Len(fld) < 2
    THEN [ok |-> FALSE, field_t |-> << >>, ndata |-> NoData]
    ELSE [ok |-> TRUE,
          field_t |-> Stacked(fld),
          ndata |-> [field |-> Strided(Stacked(fld), stride),
                     dt |-> (SortedList(Keys(fld))[2] - SortedList(Keys(fld))[1]) * stride]]

\* the field mappings of the model: up to MaxSteps items with distinct
\* timestep keys, in any order, each with the value of one point
FieldMappings ==
    UNION {{f \in [1..n -> (0..MaxKey) \X {<<v>> : v \in 0..MaxValue}] :
               \A i, j \in 1..n : i # j => f[i][1] # f[j][1]} : n \in 0..MaxSteps}

InitFields ==
    /\ pc = "add_fields"
    /\ field \in FieldMappings
    /\ subsample_time \in 1..MaxStride
    /\ field_t = << >> /\ ndata = NoData
    /\ points = << >> /\ edges1 = << >> /\ edges2 = << >> /\ npoints = 0
    /\ bif_id = << >>
    /\ indices = [inlet |-> << >>, outlets |-> << >>]
    /\ perc_points_to_keep = <<1, 1>> /\ remove_caps = 0
    /\ ipoints_to_delete = << >> /\ ipoints_to_replace = << >> /\ sampled_indices = << >>
    /\ index = 0 /\ tovisit = << >> /\ dists = << >> /\ prevs = << >>
    /\ rel_position = << >> /\ distance = << >> /\ etypes = << >>
    /\ bedges = NoBoundaryEdges /\ jedges = NoJunctionEdges
    /\ NodeDefaults /\ PartitionDefaults /\ DriverDefaults

\* one call of add_fields
AddFields ==
    /\ pc = "add_fields"
    /\ \E r \in {add_fields(field, subsample_time)} :
          /\ field_t' = r.field_t
          /\ ndata' = r.ndata
          /\ pc' = IF r.ok THEN "fields_added" ELSE "raised"
    /\ UNCHANGED <<points, edges1, edges2, indices, resVars, dijVars, graphVars,
                   nodeVars, partVars, drvVars, field, subsample_time>>

NextFields == AddFields

SpecFields == InitFields /\ [][NextFields]_vars

\* ---------------------------------------------------------------------------
\* C22
\* ---------------------------------------------------------------------------

\* C22: whatever the order of the items of the field mapping, the tensor has
\* one slice per timestep key and slice k holds the values of the k-th
\* smallest timestep key
C22_SlicesInTimestepOrder ==
    pc = "fields_added" =>
        /\ Len(field_t) = Len(field)
        /\ \A k \in 1..Len(field) : field_t[k] = DictGet(field, SortedList(Keys(field))[k])

\* ---------------------------------------------------------------------------
\* C23
\* ---------------------------------------------------------------------------

\* C23: every edge of the assembled graph whose endpoints lie at distinct
\* positions, spatial, boundary or junction, carries a relative position of
\* norm 1
C23_UnitRelativePosition ==
    pc = "assembled" =>
        /\ Len(rel_position) = Len(edges1)
        /\ \A e \in 1..Len(edges1) :
              points[edges1[e] + 1] # points[edges2[e] + 1] => Abs(rel_position[e]) = 1

\* ---------------------------------------------------------------------------
\* C24
\* ---------------------------------------------------------------------------

\* the number of edges that end at point p
Incoming(p) == Cardinality({i \in 1..Len(edges2) : edges2[i] = p})

\* C24: whenever resample_points returns on an out-tree, the returned edges
\* are an out-tree rooted at the new point 0 that spans the returned points:
\* every returned point is reachable from point 0 along directed edges, no
\* edge ends at point 0 and exactly one edge ends at every other point
C24_ResampledIsOutTree ==
    pc = "returned" =>
        /\ Reachable = 0..(Len(points) - 1)
        /\ Incoming(0) = 0
        /\ \A p \in 1..(Len(points) - 1) : Incoming(p) = 1

\* ---------------------------------------------------------------------------
\* C25
\* ---------------------------------------------------------------------------

\* the new index of the original point p in the returned arrays
NewIndexOf(p) == FirstIndex(sampled_indices, p)

\* C25: whenever resample_points returns on an out-tree, every outlet of the
\* input is kept and is a leaf of the returned edges, and find_outlets on the
\* returned edges gives exactly the new indices of the input's outlets
C25_OutletsStayLeaves ==
    pc = "returned" =>
        /\ Range(indices.outlets) \subseteq Range(sampled_indices)
        /\ \A k \in 1..Len(indices.outlets) :
              /\ Contains(edges2, NewIndexOf(indices.outlets[k]))
              /\ ~Contains(edges1, NewIndexOf(indices.outlets[k]))
        /\ Range(find_outlets(edges1, edges2))
             = {NewIndexOf(indices.outlets[k]) : k \in 1..Len(indices.outlets)}

\* ---------------------------------------------------------------------------
\* C26
\* ---------------------------------------------------------------------------

\* the number of collapse steps made so far: the deletions recorded after
\* those of the cap removal loop
CollapseSteps ==
    Len(ipoints_to_delete) - remove_caps * (Len(indices.inlet) + Len(indices.outlets))

\* the Euclidean length of edge i of the current edge list
EdgeLength(i) == Abs(At(points, edges1[i]) - At(points, edges2[i]))

\* edge i is the first edge of minimum non-zero length
FirstShortest(i) ==
    /\ EdgeLength(i) > 0
    /\ \A j \in 1..Len(edges1) : EdgeLength(j) > 0 => EdgeLength(i) <= EdgeLength(j)
    /\ \A j \in 1..(i - 1) : EdgeLength(j) # EdgeLength(i)

\* point q wherever point p stood
Rewritten(s, p, q) == [k \in 1..Len(s) |-> IF s[k] = p THEN q ELSE s[k]]

JunctionEdgesReturned == JunctionEdgesMade /\ \E k \in 1..Len(bif_id) : bif_id[k] > -1

\* C27: whenever create_junction_edges returns, for every point i >= 1 with
\* bifurcation id -1 whose predecessor is junction-labelled there is a
\* junction edge from the inlet recorded for the predecessor's junction to i,
\* and every junction-labelled point i >= 1 whose predecessor belongs to
\* another junction has the inlet recorded for the predecessor's junction
C27_EveryExitHasItsEdge ==
    JunctionEdgesReturned =>
        \A i \in 1..(Len(bif_id) - 1) :
            /\ (bif_id[i + 1] = -1 /\ bif_id[i] # -1) =>
                  /\ DictHas(jedges.juncts_inlets, bif_id[i])
                  /\ \E e \in 1..Len(jedges.jedges1) :
                        /\ jedges.jedges1[e] = DictGet(jedges.juncts_inlets, bif_id[i])
                        /\ jedges.jedges2[e] = i
            /\ (bif_id[i + 1] # -1 /\ bif_id[i] # -1 /\ bif_id[i] # bif_id[i + 1]) =>
                  /\ DictHas(jedges.juncts_inlets, bif_id[i])
                  /\ DictHas(jedges.juncts_inlets, bif_id[i + 1])
                  /\ DictGet(jedges.juncts_inlets, bif_id[i + 1])
                       = DictGet(jedges.juncts_inlets, bif_id[i])

\* ---------------------------------------------------------------------------
\* C28
\* ---------------------------------------------------------------------------

\* the ordinary points met from point j by following the first outgoing edge
\* of each point, up to the first junction-labelled point or the leaf
RECURSIVE Followed(_)
Followed(j) ==
    IF ~Contains(edges1, j) THEN {}
    ELSE LET nx == edges2[FirstIndex(edges1, j) + 1]
         IN  IF bif_id[nx + 1] # -1 THEN {} ELSE {nx} \cup Followed(nx)

\* the traversal from point j ends at a junction-labelled point
ReachesJunction(j) == NextJunction(bif_id, edges1, edges2, j) # -1

\* C28: root selection never raises, and every root chosen by the loop over
\* the junction exits is a point with bifurcation id -1 on the branch followed
\* from a junction-labelled point whose index successor is ordinary, after
\* that point and before the next junction-labelled point of the branch
C28_RootsBetweenJunctions ==
    /\ pc # "raised"
    /\ pc = "sample_roots" =>
          \A k \in 2..Len(inlets) :
              /\ bif_id[inlets[k] + 1] = -1
              /\ \E ipoint \in 0..(Len(bif_id) - 2) :
                    /\ bif_id[ipoint + 1] # -1
                    /\ bif_id[ipoint + 2] = -1
                    /\ ReachesJunction(ipoint)
                    /\ inlets[k] \in Followed(ipoint)

\* ---------------------------------------------------------------------------
\* generate_graph on chains that are not straight
\* ---------------------------------------------------------------------------

\* the largest number of points of such a chain and the largest coordinate
MaxFold == 4
MaxCoord == 4

\* a chain that starts at 0 and may turn back, with one junction id
InitFolded ==
    /\ pc = "generate_graph"
    /\ \E n \in 2..MaxFold :
          /\ points \in {p \in [1..n -> 0..MaxCoord] : p[1] = 0}
          /\ edges1 = [k \in 1..(n - 1) |-> k - 1]
          /\ edges2 = [k \in 1..(n - 1) |-> k]
          /\ npoints = n
          /\ bif_id \in [1..n -> {-1, 0}]
    /\ GraphDefaults

SpecFolded == InitFolded /\ [][NextGraph]_vars

\* ---------------------------------------------------------------------------
\* C29
\* ---------------------------------------------------------------------------

\* C29: the distance of every junction edge merged into the graph is the
\* length of the shortest path between its endpoints along the spatial edges
C29_JunctionDistanceAlongCenterline ==
    (pc = "edges_merged" /\ Len(jedges.jedges1) > 0) =>
        \A e \in 1..Len(jedges.jedges1) :
            jedges.jdistance[e] = GraphDistance(jedges.jedges1[e], jedges.jedges2[e])

\* ---------------------------------------------------------------------------
\* C30
\* ---------------------------------------------------------------------------

\* C30: whenever generate_graph calls create_junction_edges, for a chain with
\* at least one junction-labelled point, the call completes: no lookup of a
\* junction's recorded inlet or of an inlet's distances fails
C30_NoLookupFailure ==
    (/\ pc \in {"edges_merged", "raised"}
     /\ bedges.ok
     /\ \E k \in 1..Len(bif_id) : bif_id[k] > -1) => jedges.ok

=============================================================================
